---- MODULE Spec2Model ----
(***************************************************************************)
(* Model of the DramaBox front-end core: the paginated chapter fetcher     *)
(* (src/src/api/chapter.ts), the episode merge and playable-URL selection  *)
(* of MovieDetail (src/src/components/MovieDetail.tsx), the Logger, its    *)
(* file sink and its child loggers (src/src/utils/logger.ts), and the      *)
(* ApiLogger: redaction, truncation and the tracker of request contexts,   *)
(* with EndpointLogger.withLogging (src/src/api/download.ts), and the      *)
(* page loading of DramaList (src/src/components/DramaList.tsx).           *)
(***************************************************************************)
EXTENDS Integers, Sequences, FiniteSets, TLC

(***************************************************************************)
(* Bounds of the model.                                                    *)
(***************************************************************************)
MaxEpisodes == 13        \* largest detail list / totalEpisodes explored
MaxItems == 3            \* largest number of items one upstream page returns
MaxCdn == 2              \* largest cdnList explored by getBestVideoUrl
MaxVariants == 3         \* largest videoPathList explored by getBestVideoUrl

(***************************************************************************)
(* JavaScript values.  An optional field is a sequence of length 0         *)
(* (undefined) or 1 (the value).                                           *)
(***************************************************************************)
None == <<>>
Some(x) == <<x>>
IsSome(o) == Len(o) = 1
Null == <<>>             \* the null a string-valued function returns

Min(S) == CHOOSE x \in S : \A y \in S : x <= y

VARIABLES
  \* ---- getAllChapters (chapter.ts) ----
  gacPc,          \* "idle" | "awaitFetch" | "delay" | "returned" | "thrown"
  gacCaller,      \* "none" | "direct" | "fetchDramaData"
  totalEpisodes,  \* argument of the call
  totalPages,     \* local const
  page,           \* loop variable
  allChapters,    \* accumulator, and the value returned
  fetchLog,       \* history: one record per getChapters call issued by the loop
  \* ---- fetchDramaData (MovieDetail.tsx) ----
  fdPc,           \* "idle" | "awaitDetail" | "awaitChapters" | "done"
  detailEpisodes, \* local const detailEpisodes
  chapters,       \* React state `chapters`
  selectedChapter,\* React state `selectedChapter` (optional)
  videoUrl,       \* React state `videoUrl` (Null or a path)
  loading,        \* React state `loading`
  consoleOut,     \* set of the warnings / errors written by fetchDramaData
  \* ---- getBestVideoUrl called on its own ----
  urlPc,          \* "init" | "done"
  urlChapter,     \* the chapter passed in
  urlResult       \* the value returned

VARIABLES
  \* ---- Logger (logger.ts) ----
  isServer,       \* this.isServer
  config,         \* this.config (the fields the pipeline reads)
  logBuffer,      \* this.logBuffer
  flushTimeout,   \* this.flushTimeout: "none" | "active" | "cleared"
  console,        \* entries handed to console.debug/info/warn/error, in order
  flushJobs,      \* flushLogs calls in progress: for each, the entries of its
                  \* snapshot that are still to be written
  jobPhase,       \* for each of them, where the write of its first entry is:
                  \* "next" (not started), "append" (rotated, append pending)
                  \* or "report" (failed, console.error pending)
  fileLog,        \* entries handed to fs.appendFileSync, in order
  nextId,         \* number of log calls made so far, plus one
  lastCall        \* the entry of the latest log call

VARIABLES
  \* ---- the runtime of the Logger: clock, disk and log directory ----
  now,            \* Date.now()
  ticks,          \* number of clock advances so far
  diskFaulty,     \* whether the file system operations can throw
  dirExists,      \* fs.existsSync(config.logDirectory)
  files,          \* the .log files of the directory
  lastWrite,      \* history: the account of the latest write that ended
  unhandled,      \* number of promises of the logger rejected with no handler
  \* ---- ChildLogger (logger.ts) ----
  children,       \* the child loggers created so far
  lastVia         \* history: whether the latest log call came through a child

VARIABLES
  \* ---- ApiLogger: the correlation tracker (download.ts) ----
  activeRequests, \* the Map of request contexts, in insertion order
  idSeq,          \* number of request ids generated so far
  apiCalls,       \* number of ApiLogger calls made so far
  apiLast,        \* history: the account of the latest ApiLogger call
  apiStats,       \* the latest value returned by getActiveRequestsStats
  development     \* getEnvironment() === 'development'

VARIABLES
  \* ---- EndpointLogger.withLogging (download.ts) ----
  withCalls,      \* the withLogging calls awaiting fn(): requestId and startTime
  withLast,       \* history: the account of the latest withLogging call that ended
  \* ---- DramaList (DramaList.tsx) ----
  category,       \* prop category
  dramas,         \* React state `dramas`
  listLoading,    \* React state `loading`
  currentPage,    \* React state `currentPage`
  hasNextPage,    \* React state `hasNextPage`
  hasPrevPage,    \* React state `hasPrevPage`
  listError,      \* React state `error`
  loadingRef,     \* loadingRef.current
  inFlight,       \* the getDramaList requests awaiting their response, oldest first
  requestSeq,     \* number of getDramaList requests issued so far
  dramasFrom,     \* history: the request whose response `dramas` holds (0: none)
  displayed       \* history: the requests whose response was put in `dramas`

VARIABLES
  \* ---- ApiLogger.sanitizeData (download.ts) ----
  sanPc,          \* "build" | "done"
  sanInput,       \* the payload
  sanPath,        \* history: the path from the root of sanInput to its innermost value
  sanOutput,      \* the value returned
  \* ---- ApiLogger.truncateResponseBody (download.ts) ----
  trPc,           \* "init" | "done"
  trBody,         \* argument body
  trMax,          \* argument maxLength
  trResult        \* the value returned

chapVars == <<gacPc, gacCaller, totalEpisodes, totalPages, page, allChapters,
              fetchLog, fdPc, detailEpisodes, chapters, selectedChapter,
              videoUrl, loading, consoleOut>>
urlVars == <<urlPc, urlChapter, urlResult>>
logVars == <<isServer, config, logBuffer, flushTimeout, console, flushJobs,
             jobPhase, fileLog, nextId, lastCall>>
sinkVars == <<now, ticks, diskFaulty, dirExists, files, lastWrite, unhandled>>
childVars == <<children, lastVia>>
apiVars == <<activeRequests, idSeq, apiCalls, apiLast, apiStats, development>>
endpointVars == <<withCalls, withLast>>
listVars == <<category, dramas, listLoading, currentPage, hasNextPage, hasPrevPage,
              listError, loadingRef, inFlight, requestSeq, dramasFrom, displayed>>
sanVars == <<sanPc, sanInput, sanPath, sanOutput>>
trVars == <<trPc, trBody, trMax, trResult>>
vars == <<chapVars, urlVars, logVars, sinkVars, childVars, apiVars, sanVars, trVars,
          endpointVars, listVars>>

notChap == <<urlVars, logVars, sinkVars, childVars, apiVars, sanVars, trVars,
             endpointVars, listVars>>
notUrl == <<chapVars, logVars, sinkVars, childVars, apiVars, sanVars, trVars,
            endpointVars, listVars>>
notLog == <<chapVars, urlVars, apiVars, sanVars, trVars,
            endpointVars, listVars>>
notApi == <<chapVars, urlVars, sanVars, trVars,
            endpointVars, listVars>>
notSan == <<chapVars, urlVars, logVars, sinkVars, childVars, apiVars, trVars,
            endpointVars, listVars>>
\* what a withLogging call leaves unchanged besides the logger and the tracker
notEndpoint == <<chapVars, urlVars, sanVars, trVars, listVars>>
\* what DramaList leaves unchanged
notList == <<chapVars, urlVars, logVars, sinkVars, childVars, apiVars, endpointVars,
             sanVars, trVars>>
notTr == <<chapVars, urlVars, logVars, sinkVars, childVars, apiVars, sanVars,
           endpointVars, listVars>>

(***************************************************************************)
(* getBestVideoUrl  (MovieDetail.tsx 108-128, identical in part_008 279-295)*)
(***************************************************************************)
\* Array.prototype.find: index of the first element satisfying P, 0 if none
FindIndex(list, P(_)) ==
  LET hits == {i \in 1..Len(list) : P(list[i])}
  IN IF hits = {} THEN 0 ELSE Min(hits)

IsNonVipDefault(v) == v.isDefault = 1 /\ v.isVipEquity = 0
IsNonVip(v) == v.isVipEquity = 0

\* faulty variant of CdnChoice: the default flag is not looked at
CdnChoiceNoDefault(cdn) ==
  IF ~IsSome(cdn.videoPathList) \/ Len(cdn.videoPathList[1]) = 0 THEN None
  ELSE LET list == cdn.videoPathList[1]
           nonVip == FindIndex(list, IsNonVip)
       IN IF nonVip # 0 THEN Some(list[nonVip].videoPath)
          ELSE Some(list[1].videoPath)

\* the body of one iteration of `for (const cdn of chapter.cdnList)`:
\* Some(path) when the iteration returns, None when it falls through
CdnChoice(cdn) ==
  IF ~IsSome(cdn.videoPathList) \/ Len(cdn.videoPathList[1]) = 0 THEN None
  ELSE LET list == cdn.videoPathList[1]
           nonVipDefault == FindIndex(list, IsNonVipDefault)
           nonVip == FindIndex(list, IsNonVip)
       IN IF nonVipDefault # 0 THEN Some(list[nonVipDefault].videoPath)
          ELSE IF nonVip # 0 THEN Some(list[nonVip].videoPath)
          ELSE Some(list[1].videoPath)

RECURSIVE CdnLoop(_, _)
CdnLoop(cdnList, i) ==
  IF i > Len(cdnList) THEN Null
  ELSE LET r == CdnChoice(cdnList[i])
       IN IF IsSome(r) THEN r[1] ELSE CdnLoop(cdnList, i + 1)

getBestVideoUrl(chapter) ==
  IF ~IsSome(chapter.cdnList) \/ Len(chapter.cdnList[1]) = 0 THEN Null
  ELSE CdnLoop(chapter.cdnList[1], 1)

(***************************************************************************)
(* Upstream data.  The upstream API is opaque JSON: a page response is     *)
(* determined by the page asked for and the number of items it returns, a  *)
(* detail list by its length and a variant number.                         *)
(***************************************************************************)
DetailVariants == 2      \* number of detail-list shapes explored

Variant(d, vip, c, v) == [isDefault |-> d, isVipEquity |-> vip, videoPath |-> <<c, v>>]

\* the cdnList carried by the chapter with the given id
CdnFor(id) ==
  CASE id % 3 = 0 -> None
    [] id % 3 = 1 -> Some(<< [videoPathList |-> Some(<< Variant(0, 1, id, 1),
                                                       Variant(0, 0, id, 2),
                                                       Variant(1, 0, id, 3) >>)] >>)
    [] OTHER      -> Some(<< [videoPathList |-> None],
                             [videoPathList |-> Some(<< Variant(1, 1, id, 1) >>)],
                             [videoPathList |-> Some(<< Variant(1, 0, id, 2) >>)] >>)

\* item i of the upstream response for page p
UpstreamChapter(p, i) ==
  [chapterId         |-> p * 100 + i,
   chapterIndex      |-> 1000 + p * 100 + i,
   isCharge          |-> i % 2,
   isPay             |-> None,
   chapterSizeVoList |-> None,
   cdnList           |-> CdnFor(p * 100 + i)]

\* entry i (1-based position) of the detail list of shape v
DetailEpisode(i, v) ==
  [chapterIndex      |-> i - 1,
   isCharge          |-> (i + v) % 2,
   isPay             |-> CASE (i + v) % 3 = 0 -> None
                           [] (i + v) % 3 = 1 -> Some(0)
                           [] OTHER           -> Some(1),
   chapterSizeVoList |-> IF (i + v) % 2 = 0 THEN None ELSE Some(<<540, 720>>)]

\* responses of the chapter endpoint as getChapters sees them
ChapterResponses ==
  [kind : {"ok"}, n : 0..MaxItems] \cup {[kind |-> "nolist", n |-> 0]}

\* responses of the detail endpoint as fetchDramaData sees them
DetailResponses ==
  [kind : {"ok"}, n : 0..MaxEpisodes, v : 0..(DetailVariants - 1)]
    \cup {[kind |-> "nolist", n |-> 0, v |-> 0], [kind |-> "nodata", n |-> 0, v |-> 0]}

BookIds == {"", "book1"}

(***************************************************************************)
(* getChapters / getAllChapters  (chapter.ts 17-125)                       *)
(***************************************************************************)
episodesPerPage == 6

\* faulty variant of TotalPages: Math.floor instead of Math.ceil
TotalPagesFloor(n) == n \div episodesPerPage

\* Math.ceil(totalEpisodes / episodesPerPage) on a non-negative integer
TotalPages(n) ==
  IF n % episodesPerPage = 0 THEN n \div episodesPerPage
  ELSE n \div episodesPerPage + 1

\* const startIndex = 1 + (page - 1) * 6
StartIndex(p) == 1 + (p - 1) * 6

\* getChapters: data?.data?.chapterList || []
getChapters(p, resp) ==
  IF resp.kind = "ok" THEN [i \in 1..resp.n |-> UpstreamChapter(p, i)] ELSE <<>>

\* faulty variant of LoopAt: the fetch of page p + 1 is issued along with
\* that of page p
LoopAtTwoPages(p, tp, log) ==
  /\ page' = p
  /\ IF p <= tp
       THEN /\ gacPc' = "awaitFetch"
            /\ fetchLog' = log \o <<[page |-> p + 1, startIndex |-> StartIndex(p + 1),
                                      status |-> "pending", items |-> <<>>],
                                     [page |-> p, startIndex |-> StartIndex(p),
                                      status |-> "pending", items |-> <<>>]>>
       ELSE /\ gacPc' = "returned"
            /\ fetchLog' = log

\* the head of the for loop at page p: issue the fetch of page p, or leave
\* the loop and return allChapters
LoopAt(p, tp, log) ==
  /\ page' = p
  /\ IF p <= tp
       THEN /\ gacPc' = "awaitFetch"
            /\ fetchLog' = Append(log, [page |-> p, startIndex |-> StartIndex(p),
                                        status |-> "pending", items |-> <<>>])
       ELSE /\ gacPc' = "returned"
            /\ fetchLog' = log

\* faulty variant of AfterFetchError: the catch block leaves the loop
AfterFetchErrorBreak(p, tp, log) ==
  /\ page' = p
  /\ gacPc' = "returned"
  /\ fetchLog' = log

\* the loop's reaction to a rejected getChapters: the catch block
\* (`continue`: go on with page + 1)
AfterFetchError(p, tp, log) == LoopAt(p + 1, tp, log)

\* getAllChapters up to its first await
EnterGetAllChapters(b, n, caller) ==
  /\ gacCaller' = caller
  /\ totalEpisodes' = n
  /\ allChapters' = <<>>
  /\ IF b = ""
       THEN /\ gacPc' = "thrown"
            /\ UNCHANGED <<totalPages, page, fetchLog>>
       ELSE /\ totalPages' = TotalPages(n)
            /\ LoopAt(1, TotalPages(n), <<>>)

SetLast(log, status, items) ==
  [log EXCEPT ![Len(log)] = [@ EXCEPT !.status = status, !.items = items]]

CallGetAllChapters(b, n) ==
  /\ gacCaller = "none" /\ fdPc = "idle"
  /\ EnterGetAllChapters(b, n, "direct")
  /\ UNCHANGED <<fdPc, detailEpisodes, chapters, selectedChapter, videoUrl,
                 loading, consoleOut, notChap>>

\* `await getChapters(...)` resolves
FetchResolve(resp) ==
  /\ gacPc = "awaitFetch"
  /\ LET items == getChapters(page, resp)
         log == SetLast(fetchLog, "ok", items)
     IN IF Len(items) > 0
          THEN /\ allChapters' = allChapters \o items
               /\ IF page < totalPages
                    THEN /\ gacPc' = "delay"
                         /\ fetchLog' = log
                         /\ page' = page
                    ELSE LoopAt(page + 1, totalPages, log)
          ELSE /\ allChapters' = allChapters       \* break
               /\ gacPc' = "returned"
               /\ fetchLog' = log
               /\ page' = page
  /\ UNCHANGED <<gacCaller, totalEpisodes, totalPages, fdPc, detailEpisodes,
                 chapters, selectedChapter, videoUrl, loading, consoleOut, notChap>>

\* `await getChapters(...)` rejects (apiRequest rethrows the axios error)
FetchReject ==
  /\ gacPc = "awaitFetch"
  /\ AfterFetchError(page, totalPages, SetLast(fetchLog, "fail", <<>>))
  /\ UNCHANGED <<gacCaller, totalEpisodes, totalPages, allChapters, fdPc,
                 detailEpisodes, chapters, selectedChapter, videoUrl, loading,
                 consoleOut, notChap>>

\* the 100 ms delay between two pages is over
DelayElapsed ==
  /\ gacPc = "delay"
  /\ LoopAt(page + 1, totalPages, fetchLog)
  /\ UNCHANGED <<gacCaller, totalEpisodes, totalPages, allChapters, fdPc,
                 detailEpisodes, chapters, selectedChapter, videoUrl, loading,
                 consoleOut, notChap>>

(***************************************************************************)
(* fetchDramaData  (MovieDetail.tsx 44-105)                                *)
(***************************************************************************)
\* x || 0
OrZero(o) == IF IsSome(o) /\ o[1] # 0 THEN o[1] ELSE 0
\* x || []   (an array, even an empty one, is truthy)
OrEmpty(o) == IF IsSome(o) THEN o[1] ELSE <<>>

\* (detailData as any)?.list || []
DetailList(resp) ==
  IF resp.kind = "ok" THEN [i \in 1..resp.n |-> DetailEpisode(i, resp.v)] ELSE <<>>

\* faulty variant of MergeOne: no `|| 0` / `|| []` defaults
MergeOneNoDefault(chapter, index, detailEps) ==
  IF index <= Len(detailEps)
    THEN LET detailEpisode == detailEps[index]
         IN [chapter EXCEPT
               !.chapterIndex = detailEpisode.chapterIndex,
               !.isCharge = detailEpisode.isCharge,
               !.isPay = detailEpisode.isPay,
               !.chapterSizeVoList = detailEpisode.chapterSizeVoList]
    ELSE chapter

\* the callback of chaptersData.map: index is 1-based here; detailEpisodes[index]
\* is undefined (falsy) past the end of the detail list
MergeOne(chapter, index, detailEps) ==
  IF index <= Len(detailEps)
    THEN LET detailEpisode == detailEps[index]
         IN [chapter EXCEPT
               !.chapterIndex = detailEpisode.chapterIndex,
               !.isCharge = detailEpisode.isCharge,
               !.isPay = Some(OrZero(detailEpisode.isPay)),
               !.chapterSizeVoList = Some(OrEmpty(detailEpisode.chapterSizeVoList))]
    ELSE chapter

\* faulty variant of MergeChapters: the detail list drives the map
MergeChaptersByDetail(chaptersData, detailEps) ==
  [index \in 1..Len(detailEps) |->
     IF index <= Len(chaptersData)
       THEN MergeOne(chaptersData[index], index, detailEps)
       ELSE [chapterId |-> 0, chapterIndex |-> detailEps[index].chapterIndex,
             isCharge |-> detailEps[index].isCharge, isPay |-> None,
             chapterSizeVoList |-> None, cdnList |-> None]]

\* const mergedChapters = chaptersData.map(...)
MergeChapters(chaptersData, detailEps) ==
  [index \in 1..Len(chaptersData) |-> MergeOne(chaptersData[index], index, detailEps)]

\* faulty variant of NoEpisodes: no short-circuit
NoEpisodesNever(n) == FALSE

\* if (totalEpisodes === 0): the short-circuit test
NoEpisodes(n) == n = 0

FetchDramaData ==
  /\ fdPc = "idle" /\ gacCaller = "none"
  /\ loading' = TRUE
  /\ fdPc' = "awaitDetail"
  /\ UNCHANGED <<gacPc, gacCaller, totalEpisodes, totalPages, page, allChapters,
                 fetchLog, detailEpisodes, chapters, selectedChapter, videoUrl,
                 consoleOut, notChap>>

\* `await getDramaDetail(...)` resolves
DetailResolve(resp) ==
  /\ fdPc = "awaitDetail"
  /\ LET list == DetailList(resp)
     IN /\ detailEpisodes' = list
        /\ IF NoEpisodes(Len(list))
             THEN /\ consoleOut' = consoleOut \cup {"No episodes found in detail API"}
                  /\ chapters' = <<>>
                  /\ loading' = FALSE
                  /\ fdPc' = "done"
                  /\ UNCHANGED <<gacPc, gacCaller, totalEpisodes, totalPages, page,
                                 allChapters, fetchLog>>
             ELSE /\ EnterGetAllChapters("book1", Len(list), "fetchDramaData")
                  /\ fdPc' = "awaitChapters"
                  /\ UNCHANGED <<consoleOut, chapters, loading>>
  /\ UNCHANGED <<selectedChapter, videoUrl, notChap>>

\* `await getDramaDetail(...)` rejects: catch, finally
DetailReject ==
  /\ fdPc = "awaitDetail"
  /\ consoleOut' = consoleOut \cup {"Error fetching drama data"}
  /\ loading' = FALSE
  /\ fdPc' = "done"
  /\ UNCHANGED <<gacPc, gacCaller, totalEpisodes, totalPages, page, allChapters,
                 fetchLog, detailEpisodes, chapters, selectedChapter, videoUrl,
                 notChap>>

\* `await getAllChapters(...)` resolves: merge, select the first chapter
ChaptersReturned ==
  /\ fdPc = "awaitChapters" /\ gacPc = "returned"
  /\ LET mergedChapters == MergeChapters(allChapters, detailEpisodes)
     IN IF Len(mergedChapters) > 0
          THEN /\ chapters' = mergedChapters
               /\ selectedChapter' = Some(mergedChapters[1])
               /\ videoUrl' = IF getBestVideoUrl(mergedChapters[1]) # Null
                                THEN getBestVideoUrl(mergedChapters[1])
                                ELSE videoUrl
               /\ UNCHANGED consoleOut
          ELSE /\ chapters' = <<>>
               /\ consoleOut' = consoleOut \cup {"No episodes found after merging data"}
               /\ UNCHANGED <<selectedChapter, videoUrl>>
  /\ loading' = FALSE
  /\ fdPc' = "done"
  /\ UNCHANGED <<gacPc, gacCaller, totalEpisodes, totalPages, page, allChapters,
                 fetchLog, detailEpisodes, notChap>>

(***************************************************************************)
(* getBestVideoUrl applied to a chapter of the caller's choice             *)
(***************************************************************************)
RECURSIVE SeqsUpTo(_, _)
\* all sequences over S of length at most n
SeqsUpTo(S, n) ==
  IF n = 0 THEN {<<>>}
  ELSE LET shorter == SeqsUpTo(S, n - 1)
       IN shorter \cup {Append(q, x) : q \in {t \in shorter : Len(t) = n - 1}, x \in S}

\* videoPathLists whose variant k has path <<c, k>>
VideoPathLists(c) ==
  {[k \in 1..Len(flags) |-> Variant(flags[k][1], flags[k][2], c, k)] :
     flags \in SeqsUpTo({0, 1} \X {0, 1}, MaxVariants)}

CdnEntries(c) ==
  {[videoPathList |-> None]} \cup {[videoPathList |-> Some(l)] : l \in VideoPathLists(c)}

RECURSIVE CdnLists(_)
\* cdnLists of exactly n entries, entry c built by CdnEntries(c)
CdnLists(n) ==
  IF n = 0 THEN {<<>>}
  ELSE {Append(q, e) : q \in CdnLists(n - 1), e \in CdnEntries(n)}

UrlChapters ==
  {[chapterId |-> 1, cdnList |-> None]} \cup
  {[chapterId |-> 1, cdnList |-> Some(l)] : l \in UNION {CdnLists(n) : n \in 0..MaxCdn}}

CallGetBestVideoUrl ==
  /\ urlPc = "init"
  /\ urlResult' = getBestVideoUrl(urlChapter)
  /\ urlPc' = "done"
  /\ UNCHANGED <<urlChapter, notUrl>>

(***************************************************************************)
(* JSON values.  A string is a sequence of one-character strings.  A value *)
(* is [t, v, e]: t its type, v the text of a primitive, e the entries of   *)
(* an object (key k, value val) or the items of an array (k empty).        *)
(***************************************************************************)
MaxDepth == 7            \* deepest payload explored by sanitizeData
MaxStringLen == 10       \* longest string body explored by truncateResponseBody
MaxBodyLength == 8       \* largest maxLength explored (maxResponseBodyLength, scaled)

Str(chars) == [t |-> "str", v |-> chars, e |-> <<>>]
Num(chars) == [t |-> "num", v |-> chars, e |-> <<>>]
Bool(b) == [t |-> "bool", v |-> IF b THEN <<"t", "r", "u", "e">> ELSE <<"f", "a", "l", "s", "e">>, e |-> <<>>]
JNull == [t |-> "null", v |-> <<"n", "u", "l", "l">>, e |-> <<>>]
Undef == [t |-> "undef", v |-> <<>>, e |-> <<>>]
Obj(entries) == [t |-> "obj", v |-> <<>>, e |-> entries]
Arr(items) == [t |-> "arr", v |-> <<>>, e |-> [i \in 1..Len(items) |-> [k |-> <<>>, val |-> items[i]]]]
Entry(key, value) == [k |-> key, val |-> value]

\* ToBoolean
Truthy(x) ==
  CASE x.t = "str" -> Len(x.v) > 0
    [] x.t = "num" -> x.v # <<"0">>
    [] x.t = "bool" -> x.v = <<"t", "r", "u", "e">>
    [] x.t \in {"null", "undef"} -> FALSE
    [] OTHER -> TRUE

\* typeof x === 'object'
TypeofObject(x) == x.t \in {"obj", "arr", "null"}

UpperCase == <<"A", "B", "C", "D", "E", "F", "G", "H", "I", "J", "K", "L", "M", "N", "O", "P", "Q", "R", "S", "T", "U", "V", "W", "X", "Y", "Z">>
LowerCase == <<"a", "b", "c", "d", "e", "f", "g", "h", "i", "j", "k", "l", "m", "n", "o", "p", "q", "r", "s", "t", "u", "v", "w", "x", "y", "z">>

\* the lower-case form of a character
ToLower(c) ==
  IF \E i \in 1..Len(UpperCase) : UpperCase[i] = c
    THEN LowerCase[CHOOSE i \in 1..Len(UpperCase) : UpperCase[i] = c]
    ELSE c

\* sub occurs in str as a substring
Contains(str, sub) ==
  \E i \in 0..(Len(str) - Len(sub)) : SubSeq(str, i + 1, i + Len(sub)) = sub

RECURSIVE NumToChars(_)
\* String(n) for a natural number n
NumToChars(n) ==
  LET digits == <<"0", "1", "2", "3", "4", "5", "6", "7", "8", "9">>
  IN IF n < 10 THEN <<digits[n + 1]>>
     ELSE NumToChars(n \div 10) \o <<digits[(n % 10) + 1]>>

RECURSIVE EscapeChars(_)
\* the escaping JSON.stringify applies inside a string literal
EscapeChars(chars) ==
  IF Len(chars) = 0 THEN <<>>
  ELSE (IF Head(chars) \in {"\"", "\\"} THEN <<"\\", Head(chars)>> ELSE <<Head(chars)>>)
         \o EscapeChars(Tail(chars))

Quoted(chars) == <<"\"">> \o EscapeChars(chars) \o <<"\"">>

RECURSIVE Stringify(_)
RECURSIVE StringifyEntries(_, _, _)
\* the members of an object (isObj) or the elements of an array, from entry i
\* on, comma-separated; first tells whether nothing was written yet
StringifyEntries(x, i, first) ==
  IF i > Len(x.e) THEN <<>>
  ELSE LET en == x.e[i]
       IN IF x.t = "obj" /\ en.val.t = "undef"
            THEN StringifyEntries(x, i + 1, first)
            ELSE (IF first THEN <<>> ELSE <<",">>)
                   \o (IF x.t = "obj" THEN Quoted(en.k) \o <<":">> ELSE <<>>)
                   \o (IF en.val.t = "undef" THEN <<"n", "u", "l", "l">> ELSE Stringify(en.val))
                   \o StringifyEntries(x, i + 1, FALSE)

\* JSON.stringify(x) for a value x other than undefined
Stringify(x) ==
  CASE x.t = "str" -> Quoted(x.v)
    [] x.t = "obj" -> <<"{">> \o StringifyEntries(x, 1, TRUE) \o <<"}">>
    [] x.t = "arr" -> <<"[">> \o StringifyEntries(x, 1, TRUE) \o <<"]">>
    [] OTHER -> x.v

\* n spaces
Spaces(n) == [i \in 1..n |-> " "]

RECURSIVE StringifyPretty(_, _)
RECURSIVE PrettyEntries(_, _, _, _)
\* the members or elements of x from entry i on, each on a line of its own
\* indented by ind spaces
PrettyEntries(x, i, first, ind) ==
  IF i > Len(x.e) THEN <<>>
  ELSE LET en == x.e[i]
       IN IF x.t = "obj" /\ en.val.t = "undef"
            THEN PrettyEntries(x, i + 1, first, ind)
            ELSE (IF first THEN <<>> ELSE <<",">>)
                   \o <<"\n">> \o Spaces(ind)
                   \o (IF x.t = "obj" THEN Quoted(en.k) \o <<":", " ">> ELSE <<>>)
                   \o (IF en.val.t = "undef" THEN <<"n", "u", "l", "l">>
                       ELSE StringifyPretty(en.val, ind))
                   \o PrettyEntries(x, i + 1, FALSE, ind)

\* JSON.stringify(x, null, 2) for a value x other than undefined, written
\* at indentation ind
StringifyPretty(x, ind) ==
  LET body == PrettyEntries(x, 1, TRUE, ind + 2)
      close == IF body = <<>> THEN <<>> ELSE <<"\n">> \o Spaces(ind)
  IN CASE x.t = "str" -> Quoted(x.v)
       [] x.t = "obj" -> <<"{">> \o body \o close \o <<"}">>
       [] x.t = "arr" -> <<"[">> \o body \o close \o <<"]">>
       [] OTHER -> x.v

(***************************************************************************)
(* ApiLogger.sanitizeData  (download.ts 115-152) with                      *)
(* apiLoggingSettings.sensitiveDataPatterns (RecommendedSection.tsx 151-159)*)
(***************************************************************************)
\* the patterns, each a case-insensitive substring match
sensitiveDataPatterns ==
  <<<<"p", "a", "s", "s", "w", "o", "r", "d">>, <<"t", "o", "k", "e", "n">>, <<"s", "e", "c", "r", "e", "t">>, <<"k", "e", "y">>, <<"a", "u", "t", "h", "o", "r", "i", "z", "a", "t", "i", "o", "n">>, <<"c", "o", "o", "k", "i", "e">>, <<"s", "e", "s", "s", "i", "o", "n">>>>

\* sensitiveDataPatterns.some(pattern => pattern.test(key))
isSensitive(key) ==
  LET lower == [i \in 1..Len(key) |-> ToLower(key[i])]
  IN \E p \in 1..Len(sensitiveDataPatterns) : Contains(lower, sensitiveDataPatterns[p])

REDACTED == Str(<<"[", "R", "E", "D", "A", "C", "T", "E", "D", "]">>)
TooDeep == Str(<<"[", "O", "b", "j", "e", "c", "t", " ", "t", "o", "o", " ", "d", "e", "e", "p", "]">>)
maxSanitizeDepth == 5

\* faulty variant of depthExceeded: one more level is walked
depthExceededLate(depth) == depth > maxSanitizeDepth + 1

\* depth > 5
depthExceeded(depth) == depth > maxSanitizeDepth

RECURSIVE sanitizeRecursive(_, _)

\* faulty variant of sanitizeEntry: object values are walked before the key is tested
sanitizeEntryWalkFirst(key, value, depth) ==
  IF Truthy(value) /\ TypeofObject(value) THEN sanitizeRecursive(value, depth + 1)
  ELSE IF isSensitive(key) THEN REDACTED
  ELSE value

\* the body of the loop over Object.entries(obj): the value stored under key
sanitizeEntry(key, value, depth) ==
  IF isSensitive(key) THEN REDACTED
  ELSE IF Truthy(value) /\ TypeofObject(value) THEN sanitizeRecursive(value, depth + 1)
  ELSE value

sanitizeRecursive(obj, depth) ==
  IF depthExceeded(depth) THEN TooDeep
  ELSE IF obj.t = "arr"
    THEN [obj EXCEPT !.e = [i \in 1..Len(obj.e) |->
                              Entry(<<>>, sanitizeRecursive(obj.e[i].val, depth + 1))]]
  ELSE IF obj.t = "obj"
    THEN [obj EXCEPT !.e = [i \in 1..Len(obj.e) |->
                              Entry(obj.e[i].k, sanitizeEntry(obj.e[i].k, obj.e[i].val, depth))]]
  ELSE obj

sanitizeData(data) ==
  IF ~Truthy(data) \/ ~TypeofObject(data) THEN data
  ELSE sanitizeRecursive(data, 0)

\* ---- payloads: an innermost value wrapped level by level ----
SanLeaves == {Str(<<"p", "w">>), Num(<<"0">>), JNull, Arr(<<>>)}

\* keys matching each of the patterns, in mixed case: the object that wraps
\* a payload of depth d under a sensitive key uses SensitiveKeys[d % 7 + 1]
SensitiveKeys ==
  <<<<"p", "a", "s", "s", "w", "o", "r", "d">>, <<"a", "c", "c", "e", "s", "s", "T", "o", "k", "e", "n">>, <<"C", "L", "I", "E", "N", "T", "_", "S", "E", "C", "R", "E", "T">>, <<"a", "p", "i", "K", "e", "y">>, <<"A", "u", "t", "h", "o", "r", "i", "z", "a", "t", "i", "o", "n">>, <<"S", "e", "t", "-", "C", "o", "o", "k", "i", "e">>, <<"s", "e", "s", "s", "i", "o", "n", "I", "d">>>>

KeyUserId == <<"u", "s", "e", "r", "I", "d">>
KeyData == <<"d", "a", "t", "a">>

Wrappers == {"sensitive", "plain", "array"}

\* the payload that holds x as a member or an element
Wrap(w, x, d) ==
  CASE w = "sensitive" ->
         Obj(<<Entry(SensitiveKeys[(d % Len(SensitiveKeys)) + 1], x),
               Entry(KeyUserId, Num(<<"7">>))>>)
    [] w = "plain" ->
         Obj(<<Entry(KeyUserId, Num(<<"7">>)), Entry(KeyData, x)>>)
    [] OTHER ->
         Arr(<<Str(<<"x">>), x>>)

\* the position of the wrapped value among the entries of its wrapper
WrapIndex(w) == IF w = "sensitive" THEN 1 ELSE 2

WrapPayload(w) ==
  /\ sanPc = "build"
  /\ Len(sanPath) < MaxDepth
  /\ sanInput' = Wrap(w, sanInput, Len(sanPath))
  /\ sanPath' = <<WrapIndex(w)>> \o sanPath
  /\ UNCHANGED <<sanPc, sanOutput, notSan>>

CallSanitizeData ==
  /\ sanPc = "build"
  /\ sanOutput' = sanitizeData(sanInput)
  /\ sanPc' = "done"
  /\ UNCHANGED <<sanInput, sanPath, notSan>>

(***************************************************************************)
(* ApiLogger.truncateResponseBody  (download.ts 155-168)                   *)
(***************************************************************************)
KeyTruncated == <<"_", "t", "r", "u", "n", "c", "a", "t", "e", "d">>
KeyOriginalLength == <<"_", "o", "r", "i", "g", "i", "n", "a", "l", "L", "e", "n", "g", "t", "h">>
KeyTruncatedData == <<"_", "d", "a", "t", "a">>
Ellipsis == <<".", ".", ".">>

\* the wrapper object returned for a body that is too long
TruncatedWrapper(bodyString, maxLength) ==
  Obj(<<Entry(KeyTruncated, Bool(TRUE)),
        Entry(KeyOriginalLength, Num(NumToChars(Len(bodyString)))),
        Entry(KeyTruncatedData,
              Str(SubSeq(bodyString, 1, IF maxLength < Len(bodyString)
                                          THEN maxLength ELSE Len(bodyString))
                    \o Ellipsis))>>)

\* typeof body === 'string' ? body : JSON.stringify(body)
BodyString(body) == IF body.t = "str" THEN body.v ELSE Stringify(body)

\* faulty variant of FitsMaxLength: a body of exactly maxLength is truncated
FitsMaxLengthStrict(bodyString, maxLength) == Len(bodyString) < maxLength

\* bodyString.length <= maxLength
FitsMaxLength(bodyString, maxLength) == Len(bodyString) <= maxLength

truncateResponseBody(body, maxLength) ==
  IF ~Truthy(body) THEN body
  ELSE IF FitsMaxLength(BodyString(body), maxLength) THEN body
  ELSE TruncatedWrapper(BodyString(body), maxLength)

\* ---- bodies and maxima explored ----
BodyStrings == SeqsUpTo({"a", "\""}, MaxStringLen)
ShortStrings == {x \in BodyStrings : Len(x) <= 2}

TrBodies ==
  {Undef, JNull, Num(<<"0">>), Bool(FALSE), Bool(TRUE), Num(<<"4", "2">>)}
    \cup {Str(x) : x \in BodyStrings}
    \cup {Obj(<<Entry(<<"k">>, Str(x))>>) : x \in ShortStrings}
    \cup {Obj(<<Entry(<<"k">>, Undef), Entry(<<"n">>, Num(<<"1">>))>>)}
    \cup {Arr(<<Str(x), Undef, JNull>>) : x \in ShortStrings}
    \cup {Obj(<<Entry(<<"k">>, Arr(<<Str(x), Bool(TRUE)>>))>>) : x \in ShortStrings}

\* the maxima explored stay above the length of every falsy literal, as the
\* configured 1000 and 5000 do
TrMaxLengths == {m \in 0..MaxBodyLength : m >= Len(Stringify(Bool(FALSE)))}

CallTruncateResponseBody ==
  /\ trPc = "init"
  /\ trResult' = truncateResponseBody(trBody, trMax)
  /\ trPc' = "done"
  /\ UNCHANGED <<trBody, trMax, notTr>>

(***************************************************************************)
(* Logger  (logger.ts 37-404)                                              *)
(***************************************************************************)
MaxLogCalls == 2         \* number of log calls explored
MaxTicks == 2            \* number of clock advances explored
MaxKeep == 2             \* largest maxLogFiles explored besides the default

\* enum LogLevel
DEBUG == 0
INFO == 1
WARN == 2
ERROR == 3
FATAL == 4
LogLevels == DEBUG..FATAL

\* the defaults of the constructor
DefaultMaxLogFiles == 10
DefaultMaxFileSize == 50

\* Partial<LoggerConfig>: each field of the log pipeline given or not
PartialConfigs ==
  [logLevel : {None} \cup {Some(l) : l \in LogLevels},
   enableFileLogging : {None, Some(TRUE), Some(FALSE)},
   enableConsoleLogging : {None, Some(TRUE), Some(FALSE)},
   maxLogFiles : {None},
   maxFileSize : {None}]

\* Partial<LoggerConfig>: the retention fields given, the others left out
SinkConfigs ==
  [logLevel : {None},
   enableFileLogging : {None},
   enableConsoleLogging : {None},
   maxLogFiles : {Some(k) : k \in 1..MaxKeep},
   maxFileSize : {Some(1)}]

\* the arguments of updateConfig explored: at most one field given (a call
\* giving several fields acts as the calls giving each of them in turn)
ConfigUpdates ==
  {c \in PartialConfigs :
     Len(c.logLevel) + Len(c.enableFileLogging) + Len(c.enableConsoleLogging) <= 1}

\* { ...base, ...partial }
SpreadConfig(base, partial) ==
  [logLevel |-> IF IsSome(partial.logLevel) THEN partial.logLevel[1] ELSE base.logLevel,
   enableFileLogging |-> IF IsSome(partial.enableFileLogging)
                           THEN partial.enableFileLogging[1] ELSE base.enableFileLogging,
   enableConsoleLogging |-> IF IsSome(partial.enableConsoleLogging)
                              THEN partial.enableConsoleLogging[1]
                              ELSE base.enableConsoleLogging,
   maxLogFiles |-> IF IsSome(partial.maxLogFiles)
                     THEN partial.maxLogFiles[1] ELSE base.maxLogFiles,
   maxFileSize |-> IF IsSome(partial.maxFileSize)
                     THEN partial.maxFileSize[1] ELSE base.maxFileSize]

\* the configuration the constructor leaves in this.config
ConstructedConfig(server, partial) ==
  LET merged == SpreadConfig([logLevel |-> INFO, enableFileLogging |-> server,
                              enableConsoleLogging |-> TRUE,
                              maxLogFiles |-> DefaultMaxLogFiles,
                              maxFileSize |-> DefaultMaxFileSize], partial)
  IN IF ~server THEN [merged EXCEPT !.enableFileLogging = FALSE] ELSE merged

\* faulty variant of shouldLog: strict comparison
shouldLogStrict(level, cfg) == level > cfg.logLevel

\* shouldLog
shouldLog(level, cfg) == level >= cfg.logLevel

\* the arguments of a log call after the level
LogArgs(message, data, source, requestId, userId) ==
  [message |-> message, data |-> data, source |-> source,
   requestId |-> requestId, userId |-> userId]

\* the arguments of logger.info("msg")
PlainArgs == LogArgs(<<"msg">>, Undef, None, None, None)

\* createLogEntry: the entry of the log call number id made at time t
createLogEntry(id, t, level, a) ==
  [id |-> id, timestamp |-> t, level |-> level, message |-> a.message,
   data |-> a.data, source |-> a.source, requestId |-> a.requestId,
   userId |-> a.userId]

\* the console method logToConsole dispatches to
ConsoleMethod(level) ==
  CASE level = DEBUG -> "debug"
    [] level = INFO -> "info"
    [] level = WARN -> "warn"
    [] OTHER -> "error"

\* logToConsole
logToConsole(out, entry, cfg) ==
  IF ~cfg.enableConsoleLogging THEN out
  ELSE Append(out, [method |-> ConsoleMethod(entry.level), text |-> "entry",
                    entry |-> entry])

\* console.error('Failed to write to log file:', error) for the write of entry
FailureReport(entry) ==
  [method |-> "error", text |-> "Failed to write to log file:", entry |-> entry]

(***************************************************************************)
(* The log directory.  A file is [name, size, mtime]; the file of a day is *)
(* named <<date>>, a rotated one <<date, timestamp>>; sizes are in bytes.  *)
(***************************************************************************)
DayMs == 86400000
MB == 1024 * 1024

\* new Date().toISOString().split('T')[0]
DateOf(t) == t \div DayMs

\* `dramabox-${date}.log`
LogFileName(t) == <<DateOf(t)>>

\* `${baseName}-${timestamp}.log`
RotatedName(name, t) == <<name[1], t>>

FilesNamed(fs, name) == {f \in fs : f.name = name}

SizeOf(fs, name) ==
  IF FilesNamed(fs, name) = {} THEN 0 ELSE (CHOOSE f \in FilesNamed(fs, name) : TRUE).size

\* the bytes of formatLogMessage(entry) + '\n', kept abstract: one per line
EntrySize(entry) == 1

\* faulty variant of OverLimit: a file of exactly maxFileSize is rotated
OverLimitInclusive(size, maxFileSize) == size >= maxFileSize * MB

\* stats.size / (1024 * 1024) > this.config.maxFileSize
OverLimit(size, maxFileSize) == size > maxFileSize * MB

\* fs.renameSync(currentFile, rotatedFile): the target, if any, is replaced
Rename(fs, from, to) ==
  {f \in fs : f.name # from /\ f.name # to} \cup
  {[f EXCEPT !.name = to] : f \in FilesNamed(fs, from)}

\* fs.appendFileSync(filePath, logMessage) at time t
AppendFile(fs, name, bytes, t) ==
  {f \in fs : f.name # name} \cup
  {[name |-> name, size |-> SizeOf(fs, name) + bytes, mtime |-> t]}

\* faulty variant of KeptSets: the oldest files are kept
KeptSetsOldest(fs, keep) ==
  {K \in SUBSET fs :
     /\ Cardinality(K) = IF Cardinality(fs) < keep THEN Cardinality(fs) ELSE keep
     /\ \A k \in K, d \in fs \ K : k.mtime <= d.mtime}

\* the files cleanupOldLogsServer may leave: the first `keep` of the files
\* sorted newest-first by mtime, files of equal mtime in the order readdir
\* lists them
KeptSets(fs, keep) ==
  {K \in SUBSET fs :
     /\ Cardinality(K) = IF Cardinality(fs) < keep THEN Cardinality(fs) ELSE keep
     /\ \A k \in K, d \in fs \ K : k.mtime >= d.mtime}

\* what is left when readdirSync, statSync or an unlinkSync of the sweep
\* throws: the files to delete are unlinked newest first, up to the failure
InterruptedSweeps(fs, keep) ==
  {R \in SUBSET fs :
     \E K \in KeptSets(fs, keep) :
        /\ K \subseteq R
        /\ R # K \/ fs = K
        /\ \A d \in fs \ R, r \in R \ K : d.mtime >= r.mtime}

\* the operations of one write that can throw
FailPoints == {"mkdir", "stat", "rename", "cleanup", "append"}

\* the account of one write: the directory before it, after the rename,
\* after the sweep, before and after the append
WriteRecord(entry, name, cfg, fs) ==
  [id |-> entry.id, path |-> name, keep |-> cfg.maxLogFiles,
   limit |-> cfg.maxFileSize, before |-> fs, rotated |-> FALSE,
   renamedTo |-> <<>>, sweepIn |-> {}, sweepOut |-> {}, appendOn |-> {},
   after |-> fs, result |-> "started", failedAt |-> "none"]

NoWrite ==
  [id |-> 0, path |-> <<>>, keep |-> 0, limit |-> 0, before |-> {},
   rotated |-> FALSE, renamedTo |-> <<>>, sweepIn |-> {}, sweepOut |-> {},
   appendOn |-> {}, after |-> {}, result |-> "none", failedAt |-> "none"]

\* the part of the state a log call can change
LoggerState ==
  [console |-> console, logBuffer |-> logBuffer, flushJobs |-> flushJobs,
   jobPhase |-> jobPhase, fileLog |-> fileLog, dirExists |-> dirExists,
   files |-> files, lastWrite |-> lastWrite, unhandled |-> unhandled,
   nextId |-> nextId, lastCall |-> lastCall, lastVia |-> lastVia]

SetLoggerState(s) ==
  /\ console' = s.console /\ logBuffer' = s.logBuffer
  /\ flushJobs' = s.flushJobs /\ jobPhase' = s.jobPhase
  /\ fileLog' = s.fileLog /\ dirExists' = s.dirExists /\ files' = s.files
  /\ lastWrite' = s.lastWrite /\ unhandled' = s.unhandled
  /\ nextId' = s.nextId /\ lastCall' = s.lastCall /\ lastVia' = s.lastVia

\* a log call made on the logger itself
Direct == [child |-> None, method |-> "log"]

\* a call of `method` made through the child logger c
Via(c, method) == [child |-> Some(c), method |-> method]

\* the state in which a call through `via` starts
Called(via) == [LoggerState EXCEPT !.lastVia = via]

\* the operations that may throw during a write
Faults == IF diskFaulty THEN FailPoints \cup {"none"} ELSE {"none"}

\* cleanupOldLogsServer on the directory fs: the directories it may leave,
\* each with whether it threw
cleanupOldLogsServer(fs, keep, fault) ==
  IF fault = "cleanup"
    THEN {[files |-> R, threw |-> TRUE] : R \in InterruptedSweeps(fs, keep)}
    ELSE {[files |-> K, threw |-> FALSE] : K \in KeptSets(fs, keep)}

\* rotateLogFileServer: the rename, then the sweep
rotateLogFileServer(fs, name, keep, fault) ==
  IF fault = "rename"
    THEN {[files |-> fs, renamed |-> fs, threw |-> TRUE]}
    ELSE LET renamed == Rename(fs, name, RotatedName(name, now))
         IN {[files |-> o.files, renamed |-> renamed, threw |-> o.threw] :
               o \in cleanupOldLogsServer(renamed, keep, fault)}

\* writeToFileServer up to its first suspension, when the operation `fault`
\* throws if it is reached: the directory it leaves, the account of the
\* write and "written", "rotated" (the append is still to come) or "failed"
writeToFileServer(s, entry, fault) ==
  LET name == LogFileName(now)
      w0 == WriteRecord(entry, name, config, s.files)
      failed(fs, w, at) ==
        [dirExists |-> at # "mkdir", files |-> fs, result |-> "failed",
         w |-> [w EXCEPT !.after = fs, !.result = "failed", !.failedAt = at]]
  IN IF ~s.dirExists /\ fault = "mkdir" THEN {failed(s.files, w0, "mkdir")}
     ELSE IF FilesNamed(s.files, name) # {} /\ fault = "stat"
       THEN {failed(s.files, w0, "stat")}
     ELSE IF FilesNamed(s.files, name) # {}
             /\ OverLimit(SizeOf(s.files, name), config.maxFileSize)
       THEN {IF o.threw
               THEN failed(o.files,
                           IF fault = "rename" THEN w0
                           ELSE [w0 EXCEPT !.rotated = TRUE,
                                           !.renamedTo = RotatedName(name, now),
                                           !.sweepIn = o.renamed],
                           fault)
               ELSE [dirExists |-> TRUE, files |-> o.files, result |-> "rotated",
                     w |-> [w0 EXCEPT !.rotated = TRUE,
                                      !.renamedTo = RotatedName(name, now),
                                      !.sweepIn = o.renamed,
                                      !.sweepOut = o.files,
                                      !.result = "rotated"]] :
               o \in rotateLogFileServer(s.files, name, config.maxLogFiles, fault)}
     ELSE IF fault = "append" THEN {failed(s.files, [w0 EXCEPT !.appendOn = s.files], "append")}
     ELSE LET after == AppendFile(s.files, name, EntrySize(entry), now)
          IN {[dirExists |-> TRUE, files |-> after, result |-> "written",
               w |-> [w0 EXCEPT !.appendOn = s.files, !.after = after,
                                !.result = "written"]]}

\* the rest of writeToFileServer after `await this.rotateLogFileServer(...)`
appendAfterRotate(s, entry, w, fault) ==
  IF fault = "append"
    THEN [dirExists |-> s.dirExists, files |-> s.files, result |-> "failed",
          w |-> [w EXCEPT !.appendOn = s.files, !.after = s.files,
                          !.result = "failed", !.failedAt = "append"]]
    ELSE LET after == AppendFile(s.files, w.path, EntrySize(entry), now)
         IN [dirExists |-> s.dirExists, files |-> after, result |-> "written",
             w |-> [w EXCEPT !.appendOn = s.files, !.after = after,
                             !.result = "written"]]

\* faulty variant of writeToFileCatch: no try / catch around the write
writeToFileNoCatch(result) ==
  CASE result = "failed" -> "abort"
    [] result = "written" -> "done"
    [] OTHER -> "append"

\* the try / catch of writeToFile: what the caller's loop sees of a write
\* that was written, rotated (append pending) or failed (report pending)
writeToFileCatch(result) ==
  CASE result = "failed" -> "report"
    [] result = "written" -> "done"
    [] OTHER -> "append"

\* the state after the write step that left outcome o
AfterWrite(s, entry, o) ==
  [s EXCEPT !.dirExists = o.dirExists, !.files = o.files,
            !.fileLog = IF o.result = "written" THEN Append(@, entry) ELSE @,
            !.lastWrite = IF o.result = "rotated" THEN @ ELSE o.w]

\* writeToFile(entry) up to its first suspension: nothing in a browser, else
\* writeToFileServer inside try / catch
writeToFile(s, entry) ==
  IF ~isServer THEN {[s |-> s, phase |-> "done", w |-> NoWrite]}
  ELSE {[s |-> AfterWrite(s, entry, o), phase |-> writeToFileCatch(o.result), w |-> o.w] :
          o \in UNION {writeToFileServer(s, entry, fault) : fault \in Faults}}

\* the loop of flushLogs after the write of the first of `entries` has come
\* to `phase`: job j (0: a new one) goes on with the next entry, waits for
\* the pending append or report, or is abandoned
SettleJob(s, j, entries, phase, w) ==
  LET keepJob == phase \in {"append", "report"} \/ (phase = "done" /\ Len(entries) > 1)
      job == IF phase = "done" THEN Tail(entries) ELSE entries
      ph == IF phase = "done" THEN [phase |-> "next", w |-> NoWrite]
            ELSE [phase |-> phase, w |-> w]
      without(q) == IF j = 0 THEN q
                    ELSE SubSeq(q, 1, j - 1) \o SubSeq(q, j + 1, Len(q))
      put(q, x) == IF j = 0 THEN Append(q, x) ELSE [q EXCEPT ![j] = x]
  IN [s EXCEPT !.flushJobs = IF keepJob THEN put(@, job) ELSE without(@),
               !.jobPhase = IF keepJob THEN put(@, ph) ELSE without(@),
               !.unhandled = IF phase = "abort" THEN @ + 1 ELSE @]

\* faulty variant of flushLogs: the buffer is not cleared
flushLogsKeepBuffer(s) ==
  IF Len(s.logBuffer) = 0 THEN {s}
  ELSE {SettleJob(o.s, 0, s.logBuffer, o.phase, o.w) :
          o \in writeToFile(s, Head(s.logBuffer))}

\* flushLogs up to its first suspension: snapshot, clear, and the first
\* writeToFile, which runs synchronously up to its append or its first
\* await; the rest of the snapshot is written by the continuations
flushLogs(s) ==
  IF Len(s.logBuffer) = 0 THEN {s}
  ELSE {SettleJob(o.s, 0, s.logBuffer, o.phase, o.w) :
          o \in writeToFile([s EXCEPT !.logBuffer = <<>>], Head(s.logBuffer))}

\* faulty variant of ImmediateFlush: only FATAL forces the drain
ImmediateFlushFatalOnly(level) == level >= FATAL

\* if (level >= LogLevel.ERROR)
ImmediateFlush(level) == level >= ERROR

\* faulty variant of DurableSinkOn: the runtime is not looked at
DurableSinkOnConfigOnly(server, cfg) == cfg.enableFileLogging

\* this.isServer && this.config.enableFileLogging
DurableSinkOn(server, cfg) == server /\ cfg.enableFileLogging

\* processLog up to its first suspension
processLog(s, level, a) ==
  LET entry == createLogEntry(s.nextId, now, level, a)
      called == [s EXCEPT !.nextId = @ + 1, !.lastCall = entry]
      shown == [called EXCEPT !.console = logToConsole(@, entry, config)]
      buffered == [shown EXCEPT !.logBuffer = Append(@, entry)]
  IN IF ~shouldLog(level, config) THEN {called}
     ELSE IF DurableSinkOn(isServer, config)
       THEN IF ImmediateFlush(level) THEN flushLogs(buffered) ELSE {buffered}
     ELSE {shown}

\* what a log call leaves unchanged
LoggerFixed == <<isServer, config, flushTimeout, now, ticks, diskFaulty>>

\* debug / info / warn / error / fatal: processLog(level, "msg")
LogCallUpTo(level, calls) ==
  /\ nextId <= calls
  /\ \E s \in processLog(Called(Direct), level, PlainArgs) : SetLoggerState(s)
  /\ UNCHANGED <<LoggerFixed, children, notLog>>

LogCall(level) == LogCallUpTo(level, MaxLogCalls)

\* the setInterval callback: a timer callback runs only when no continuation
\* of an earlier flushLogs is pending
TimerFlush ==
  /\ flushTimeout = "active"
  /\ flushJobs = <<>>
  /\ \E s \in flushLogs(LoggerState) : SetLoggerState(s)
  /\ UNCHANGED <<LoggerFixed, children, notLog>>

\* a flushLogs call in progress goes on: it starts the write of its next
\* entry, finishes a rotated write with the append, or reports a failed one
FlushContinue(j) ==
  /\ j \in 1..Len(flushJobs)
  /\ LET s == LoggerState
         job == flushJobs[j]
         entry == Head(flushJobs[j])
         ph == jobPhase[j]
     IN CASE ph.phase = "next" ->
               \E o \in writeToFile(s, entry) :
                  SetLoggerState(SettleJob(o.s, j, job, o.phase, o.w))
          [] ph.phase = "append" ->
               \E fault \in Faults \cap {"none", "append"} :
                  LET o == appendAfterRotate(s, entry, ph.w, fault)
                  IN SetLoggerState(SettleJob(AfterWrite(s, entry, o), j, job,
                                              writeToFileCatch(o.result), o.w))
          [] OTHER ->
               SetLoggerState(SettleJob(
                  [s EXCEPT !.console = Append(@, FailureReport(entry))],
                  j, job, "done", NoWrite))
  /\ UNCHANGED <<LoggerFixed, children, notLog>>

\* updateConfig
UpdateConfig(newConfig) ==
  /\ config' = SpreadConfig(config, newConfig)
  /\ UNCHANGED <<isServer, logBuffer, flushTimeout, console, flushJobs, jobPhase,
                 fileLog, nextId, lastCall, sinkVars, childVars, notLog>>

\* shutdown
Shutdown ==
  /\ flushTimeout' = IF flushTimeout = "none" THEN "none" ELSE "cleared"
  /\ \E s \in flushLogs(LoggerState) : SetLoggerState(s)
  /\ UNCHANGED <<isServer, config, now, ticks, diskFaulty, children, notLog>>

\* time passes
Tick(d) ==
  /\ ticks < MaxTicks
  /\ now' = now + d
  /\ ticks' = ticks + 1
  /\ UNCHANGED <<isServer, config, logBuffer, flushTimeout, console, flushJobs,
                 jobPhase, fileLog, nextId, lastCall, diskFaulty, dirExists,
                 files, lastWrite, unhandled, childVars, notLog>>

(***************************************************************************)
(* The formatted line, the API methods of Logger and ChildLogger           *)
(* (logger.ts 84-110, 320-349, 383-385, 407-446)                           *)
(***************************************************************************)
\* getLevelName
getLevelName(level) ==
  CASE level = DEBUG -> "DEBUG"
    [] level = INFO -> "INFO"
    [] level = WARN -> "WARN"
    [] level = ERROR -> "ERROR"
    [] OTHER -> "FATAL"

\* formatLogMessage: the line appended to the file, as a sequence of pieces
\* of text (the timestamp is written as the number of milliseconds)
formatLogMessage(entry) ==
  <<"[">> \o NumToChars(entry.timestamp) \o <<"] [", getLevelName(entry.level), "]">>
    \o (IF IsSome(entry.source) THEN <<" [">> \o entry.source[1] \o <<"]">> ELSE <<>>)
    \o (IF IsSome(entry.requestId)
          THEN <<" [Request: ">> \o entry.requestId[1] \o <<"]">> ELSE <<>>)
    \o <<" [Session: ", "sessionId", "]", " ">>
    \o entry.message
    \o (IF Truthy(entry.data)
          THEN <<"\nData: ">> \o StringifyPretty(entry.data, 0) ELSE <<>>)

KeyMethod == <<"m", "e", "t", "h", "o", "d">>
KeyUrl == <<"u", "r", "l">>
KeyRequestData == <<"r", "e", "q", "u", "e", "s", "t", "D", "a", "t", "a">>
KeyResponseData == <<"r", "e", "s", "p", "o", "n", "s", "e", "D", "a", "t", "a">>
KeyTimestamp == <<"t", "i", "m", "e", "s", "t", "a", "m", "p">>
KeyStatus == <<"s", "t", "a", "t", "u", "s">>
KeyDuration == <<"d", "u", "r", "a", "t", "i", "o", "n">>
KeyError == <<"e", "r", "r", "o", "r">>
KeyStack == <<"s", "t", "a", "c", "k">>
KeyMessage == <<"m", "e", "s", "s", "a", "g", "e">>
SourceApi == <<"A", "P", "I">>

\* new Date().toISOString(), written as the number of milliseconds
IsoNow == Str(NumToChars(now))

\* x[key] for a value x that is neither null nor undefined
Field(x, key) ==
  LET hits == {i \in 1..Len(x.e) : x.e[i].k = key}
  IN IF x.t # "obj" \/ hits = {} THEN Undef
     ELSE x.e[CHOOSE i \in hits : \A j \in hits : j <= i].val

\* a || b
OrElse(a, b) == IF Truthy(a) THEN a ELSE b

\* `${duration}ms`
Millis(duration) == Str(NumToChars(duration) \o <<"m", "s">>)

\* Logger.apiRequest: the arguments it passes to info
apiRequestArgs(method, url, requestData, requestId) ==
  LogArgs(<<"API Request: ">> \o method \o <<" ">> \o url,
          Obj(<<Entry(KeyMethod, Str(method)), Entry(KeyUrl, Str(url)),
                Entry(KeyRequestData, requestData), Entry(KeyTimestamp, IsoNow)>>),
          Some(SourceApi), requestId, None)

\* Logger.apiResponse: the level it logs at
apiResponseLevel(status) == IF status >= 400 THEN ERROR ELSE INFO

\* Logger.apiResponse: the arguments it passes to processLog
apiResponseArgs(method, url, status, responseData, requestId, duration) ==
  LogArgs(<<"API Response: ">> \o method \o <<" ">> \o url \o <<" - ">> \o NumToChars(status),
          Obj(<<Entry(KeyMethod, Str(method)), Entry(KeyUrl, Str(url)),
                Entry(KeyStatus, Num(NumToChars(status))),
                Entry(KeyResponseData,
                      IF ~Truthy(responseData) THEN Undef
                      ELSE IF TypeofObject(responseData)
                        THEN Str(SubSeq(Stringify(responseData), 1,
                                        Min({1000, Len(Stringify(responseData))})))
                      ELSE responseData),
                Entry(KeyDuration, IF duration # 0 THEN Millis(duration) ELSE Undef),
                Entry(KeyTimestamp, IsoNow)>>),
          Some(SourceApi), requestId, None)

\* Logger.apiError: the arguments it passes to error, for an error that is
\* neither null nor undefined
apiErrorArgs(method, url, error, requestId) ==
  LogArgs(<<"API Error: ">> \o method \o <<" ">> \o url,
          Obj(<<Entry(KeyMethod, Str(method)), Entry(KeyUrl, Str(url)),
                Entry(KeyError, OrElse(Field(error, KeyMessage), error)),
                Entry(KeyStack, Field(error, KeyStack)),
                Entry(KeyTimestamp, IsoNow)>>),
          Some(SourceApi), requestId, None)

\* the values explored for the pinned fields and the arguments of the calls
ChildSources == {<<"T", "e", "s", "t">>}
ChildRequestIds == {None, Some(<<"r", "1">>)}
ChildUserIds == {None, Some(<<"u", "1">>)}
GET == <<"G", "E", "T">>
TestUrl == <<"/", "x">>
TestError == Obj(<<Entry(KeyMessage, Str(<<"b", "o", "o", "m">>)), Entry(KeyStack, Str(<<"a", "t">>))>>)
TestStatuses == {200, 500}

\* Logger.child: new ChildLogger(this, source, requestId, userId)
CreateChild(source, requestId, userId) ==
  /\ children' = children \cup {[source |-> source, requestId |-> requestId,
                                 userId |-> userId]}
  /\ UNCHANGED <<logVars, sinkVars, lastVia, notLog>>

\* ChildLogger.debug / info / warn / error / fatal
ChildLog(c, level) ==
  /\ c \in children
  /\ nextId <= MaxLogCalls
  /\ \E s \in processLog(Called(Via(c, "log")), level,
                         LogArgs(<<"msg">>, Undef, Some(c.source), c.requestId, c.userId)) :
        SetLoggerState(s)
  /\ UNCHANGED <<LoggerFixed, children, notLog>>

\* ChildLogger.apiRequest
ChildApiRequest(c) ==
  /\ c \in children
  /\ nextId <= MaxLogCalls
  /\ \E s \in processLog(Called(Via(c, "apiRequest")), INFO,
                         apiRequestArgs(GET, TestUrl, Undef, c.requestId)) :
        SetLoggerState(s)
  /\ UNCHANGED <<LoggerFixed, children, notLog>>

\* ChildLogger.apiResponse
ChildApiResponse(c, status) ==
  /\ c \in children
  /\ nextId <= MaxLogCalls
  /\ \E s \in processLog(Called(Via(c, "apiResponse")), apiResponseLevel(status),
                         apiResponseArgs(GET, TestUrl, status, Undef, c.requestId, 0)) :
        SetLoggerState(s)
  /\ UNCHANGED <<LoggerFixed, children, notLog>>

\* ChildLogger.apiError
ChildApiError(c) ==
  /\ c \in children
  /\ nextId <= MaxLogCalls
  /\ \E s \in processLog(Called(Via(c, "apiError")), ERROR,
                         apiErrorArgs(GET, TestUrl, TestError, c.requestId)) :
        SetLoggerState(s)
  /\ UNCHANGED <<LoggerFixed, children, notLog>>

\* the payloads of the documented example: a login attempt with and without
\* credentials, and credentials one level down
KeyEmail == <<"e", "m", "a", "i", "l">>
KeyPassword == <<"p", "a", "s", "s", "w", "o", "r", "d">>
KeyToken == <<"t", "o", "k", "e", "n">>
KeyUser == <<"u", "s", "e", "r">>
Secret == <<"s", "3", "c", "r", "3", "t">>
LoginPayloads ==
  {Obj(<<Entry(KeyEmail, Str(<<"a", "@", "b">>)), Entry(KeyPassword, Str(Secret)),
         Entry(KeyToken, Str(Secret)), Entry(KeyUserId, Str(<<"1", "2", "3">>))>>),
   Obj(<<Entry(KeyUserId, Str(<<"1", "2", "3">>))>>),
   Obj(<<Entry(KeyUser, Obj(<<Entry(KeyPassword, Str(Secret))>>))>>)}

\* debug / info / warn / error / fatal with a data argument:
\* processLog(level, "Login attempt", payload)
LogPayload(level, payload) ==
  /\ nextId <= MaxLogCalls
  /\ \E s \in processLog(Called(Direct), level,
                         LogArgs(<<"Login attempt">>, payload, None, None, None)) :
        SetLoggerState(s)
  /\ UNCHANGED <<LoggerFixed, children, notLog>>

(***************************************************************************)
(* ApiLogger: the correlation tracker  (download.ts 101-112, 171-278,      *)
(* 345-383, 443-450) with apiLoggingSettings (RecommendedSection.tsx       *)
(* 137-160)                                                                *)
(***************************************************************************)
MaxApiCalls == 3         \* number of ApiLogger calls explored

\* apiLoggingSettings
slowRequestThreshold == 3000
logRequests == development
logResponseBodies == development
maxResponseBodyLength == IF development THEN 5000 ELSE 1000

\* 5 * 60 * 1000
StaleAfter == 5 * 60 * 1000

\* generateRequestId: the n-th generated id
generateRequestId(n) == <<"r", "e", "q", "_">> \o NumToChars(n)

\* this.activeRequests.get(requestId): the positions holding requestId (one at most)
Positions(reqs, requestId) == {i \in 1..Len(reqs) : reqs[i].requestId = requestId}

MapHas(reqs, requestId) == Positions(reqs, requestId) # {}

MapGet(reqs, requestId) == reqs[CHOOSE i \in Positions(reqs, requestId) : TRUE]

\* this.activeRequests.set(requestId, context): a key already present keeps
\* its place in the iteration order
MapSet(reqs, context) ==
  IF MapHas(reqs, context.requestId)
    THEN [i \in 1..Len(reqs) |->
            IF reqs[i].requestId = context.requestId THEN context ELSE reqs[i]]
    ELSE Append(reqs, context)

RECURSIVE MapDelete(_, _)
\* this.activeRequests.delete(requestId)
MapDelete(reqs, requestId) ==
  IF reqs = <<>> THEN <<>>
  ELSE IF Head(reqs).requestId = requestId THEN MapDelete(Tail(reqs), requestId)
  ELSE <<Head(reqs)>> \o MapDelete(Tail(reqs), requestId)

\* the logger states after one more call processLog(level, a) from each of S
Emit(S, level, a) == UNION {processLog(s, level, a) : s \in S}

KeyRequestId == <<"r", "e", "q", "u", "e", "s", "t", "I", "d">>
KeyThreshold == <<"t", "h", "r", "e", "s", "h", "o", "l", "d">>
KeyHeaders == <<"h", "e", "a", "d", "e", "r", "s">>
KeyBody == <<"b", "o", "d", "y">>
KeyQuery == <<"q", "u", "e", "r", "y">>
KeyUserAgent == <<"u", "s", "e", "r", "A", "g", "e", "n", "t">>
KeyIp == <<"i", "p">>
KeyAge == <<"a", "g", "e">>
KeyCode == <<"c", "o", "d", "e">>
KeyContext == <<"c", "o", "n", "t", "e", "x", "t">>
KeyResponse == <<"r", "e", "s", "p", "o", "n", "s", "e">>
KeyAdditionalContext == <<"a", "d", "d", "i", "t", "i", "o", "n", "a", "l", "C", "o", "n", "t", "e", "x", "t">>
SourceApiPerformance == <<"A", "P", "I", "-", "P", "E", "R", "F", "O", "R", "M", "A", "N", "C", "E">>

\* the account of an ApiLogger call
ApiCall(op, requestId, found, threw, returned, status, duration) ==
  [op |-> op, requestId |-> requestId, found |-> found, threw |-> threw,
   returned |-> returned, status |-> status, duration |-> duration]

\* what an ApiLogger call leaves unchanged
ApiFixed == <<LoggerFixed, children, development, apiStats, notApi>>

\* the logger state s when a log call is made on the logger itself
CalledOn(s) == [s EXCEPT !.lastVia = Direct]

\* logRequest on the tracker reqs, with n ids generated so far and the logger
\* in state s: the id returned, the tracker, and the logger states it may leave
logRequest(reqs, n, s, request) ==
  LET generated == ~(IsSome(request.requestId) /\ request.requestId[1] # <<>>)
      requestId == IF generated THEN generateRequestId(n) ELSE request.requestId[1]
      context == [requestId |-> requestId, method |-> request.method,
                  url |-> request.url, timestamp |-> now]
      logData == Obj(<<Entry(KeyMethod, Str(request.method)),
                       Entry(KeyUrl, Str(request.url)),
                       Entry(KeyHeaders, sanitizeData(request.headers)),
                       Entry(KeyBody, sanitizeData(request.body)),
                       Entry(KeyQuery, request.query),
                       Entry(KeyUserAgent, Undef), Entry(KeyIp, Undef)>>)
  IN [requestId |-> requestId,
      idSeq |-> IF generated THEN n + 1 ELSE n,
      activeRequests |-> MapSet(reqs, context),
      account |-> ApiCall("logRequest", requestId, MapHas(reqs, requestId),
                          FALSE, 0, 0, None),
      loggers |-> IF logRequests
                    THEN processLog(CalledOn(s), INFO,
                                    apiRequestArgs(request.method, request.url,
                                                   logData, Some(requestId)))
                    ELSE {CalledOn(s)}]

\* a call of logRequest
LogRequest(request) ==
  /\ apiCalls < MaxApiCalls
  /\ apiCalls' = apiCalls + 1
  /\ LET r == logRequest(activeRequests, idSeq, LoggerState, request)
     IN /\ idSeq' = r.idSeq
        /\ activeRequests' = r.activeRequests
        /\ apiLast' = r.account
        /\ \E s \in r.loggers : SetLoggerState(s)
  /\ UNCHANGED ApiFixed

\* faulty variant of IsSlow: a request of exactly the threshold is slow
IsSlowInclusive(duration) == duration >= slowRequestThreshold

\* duration > apiLoggingSettings.slowRequestThreshold
IsSlow(duration) == duration > slowRequestThreshold

\* response.duration || (Date.now() - context.timestamp)
ResponseDuration(response, context) ==
  IF IsSome(response.duration) /\ response.duration[1] # 0
    THEN response.duration[1] ELSE now - context.timestamp

\* the tracker after logResponse or logError found the context
AfterResponse(reqs, requestId) == MapDelete(reqs, requestId)

\* logResponse on the tracker reqs with the logger in state s
logResponse(reqs, s, response) ==
  LET requestId == response.requestId
      found == MapHas(reqs, requestId)
      context == MapGet(reqs, requestId)
      duration == ResponseDuration(response, context)
      warned == IF IsSlow(duration)
                  THEN processLog(CalledOn(s), WARN,
                         LogArgs(<<"Slow API request detected: ">> \o context.method
                                   \o <<" ">> \o context.url,
                                 Obj(<<Entry(KeyRequestId, Str(requestId)),
                                       Entry(KeyDuration, Millis(duration)),
                                       Entry(KeyThreshold, Millis(slowRequestThreshold))>>),
                                 Some(SourceApiPerformance), None, None))
                  ELSE {CalledOn(s)}
      responseBody == IF logResponseBodies /\ Truthy(response.responseBody)
                        THEN truncateResponseBody(sanitizeData(response.responseBody),
                                                  maxResponseBodyLength)
                        ELSE response.responseBody
  IN IF ~found
       THEN [activeRequests |-> reqs,
             account |-> ApiCall("logResponse", requestId, FALSE, FALSE, 0,
                                 response.status, response.duration),
             loggers |-> processLog(CalledOn(s), WARN,
                           LogArgs(<<"No request context found for response: ">>
                                     \o requestId, Undef, None, None, None))]
       ELSE [activeRequests |-> AfterResponse(reqs, requestId),
             account |-> ApiCall("logResponse", requestId, TRUE, FALSE, duration,
                                 response.status, response.duration),
             loggers |-> Emit(warned, apiResponseLevel(response.status),
                              apiResponseArgs(context.method, context.url,
                                              response.status, responseBody,
                                              Some(requestId), duration))]

\* a call of logResponse
LogResponse(response) ==
  /\ apiCalls < MaxApiCalls
  /\ apiCalls' = apiCalls + 1
  /\ idSeq' = idSeq
  /\ LET r == logResponse(activeRequests, LoggerState, response)
     IN /\ activeRequests' = r.activeRequests
        /\ apiLast' = r.account
        /\ \E s \in r.loggers : SetLoggerState(s)
  /\ UNCHANGED ApiFixed

\* error.message, error.stack, ...: reading a property of null or undefined throws
PropertyReadThrows(error) == error.t \in {"undef", "null"}

\* logError on the tracker reqs with the logger in state s; a call that
\* throws leaves both as they are
logError(reqs, s, requestId, error, additionalContext) ==
  LET found == MapHas(reqs, requestId)
      context == MapGet(reqs, requestId)
      duration == now - context.timestamp
      errorData ==
        Obj(<<Entry(KeyMethod, Str(context.method)), Entry(KeyUrl, Str(context.url)),
              Entry(KeyError,
                    Obj(<<Entry(KeyMessage, OrElse(Field(error, KeyMessage), error)),
                          Entry(KeyStack, Field(error, KeyStack)),
                          Entry(KeyCode, Field(error, KeyCode)),
                          Entry(KeyStatus,
                                OrElse(Field(error, KeyStatus),
                                       IF Field(error, KeyResponse).t \in {"undef", "null"}
                                         THEN Undef
                                         ELSE Field(Field(error, KeyResponse), KeyStatus)))>>)),
              Entry(KeyDuration, Millis(duration)),
              Entry(KeyContext, sanitizeData(additionalContext)),
              Entry(KeyUserAgent, Undef), Entry(KeyIp, Undef)>>)
  IN IF PropertyReadThrows(error)
       THEN [activeRequests |-> reqs,
             account |-> ApiCall("logError", requestId, found, TRUE, 0, 0, None),
             loggers |-> {s}]
     ELSE IF ~found
       THEN [activeRequests |-> reqs,
             account |-> ApiCall("logError", requestId, FALSE, FALSE, 0, 0, None),
             loggers |-> processLog(CalledOn(s), ERROR,
                           LogArgs(<<"API Error without request context">>,
                                   Obj(<<Entry(KeyRequestId, Str(requestId)),
                                         Entry(KeyError, OrElse(Field(error, KeyMessage), error)),
                                         Entry(KeyAdditionalContext, additionalContext)>>),
                                   None, None, None))]
     ELSE [activeRequests |-> AfterResponse(reqs, requestId),
           account |-> ApiCall("logError", requestId, TRUE, FALSE, duration, 0, None),
           loggers |-> processLog(CalledOn(s), ERROR,
                         apiErrorArgs(context.method, context.url, errorData,
                                      Some(requestId)))]

\* a call of logError
LogError(requestId, error, additionalContext) ==
  /\ apiCalls < MaxApiCalls
  /\ apiCalls' = apiCalls + 1
  /\ idSeq' = idSeq
  /\ LET r == logError(activeRequests, LoggerState, requestId, error, additionalContext)
     IN /\ activeRequests' = r.activeRequests
        /\ apiLast' = r.account
        /\ \E s \in r.loggers : SetLoggerState(s)
  /\ UNCHANGED ApiFixed

RECURSIVE CountMethod(_, _)
\* stats.byMethod[method] after the loop
CountMethod(reqs, method) ==
  IF reqs = <<>> THEN 0
  ELSE (IF Head(reqs).method = method THEN 1 ELSE 0) + CountMethod(Tail(reqs), method)

RECURSIVE OldestRequest(_, _, _)
\* stats.oldestRequest after the loop that starts at oldestTimestamp
OldestRequest(reqs, oldestTimestamp, oldest) ==
  IF reqs = <<>> THEN oldest
  ELSE IF Head(reqs).timestamp < oldestTimestamp
    THEN OldestRequest(Tail(reqs), Head(reqs).timestamp, Some(Head(reqs).requestId))
  ELSE OldestRequest(Tail(reqs), oldestTimestamp, oldest)

\* getActiveRequestsStats at time t
getActiveRequestsStats(reqs, t) ==
  [total |-> Len(reqs),
   byMethod |-> [m \in {reqs[i].method : i \in 1..Len(reqs)} |-> CountMethod(reqs, m)],
   oldestRequest |-> OldestRequest(reqs, t, None)]

GetActiveRequestsStats ==
  /\ apiCalls < MaxApiCalls
  /\ apiCalls' = apiCalls + 1
  /\ apiStats' = getActiveRequestsStats(activeRequests, now)
  /\ apiLast' = ApiCall("getActiveRequestsStats", <<>>, FALSE, FALSE, 0, 0, None)
  /\ UNCHANGED <<activeRequests, idSeq, logVars, sinkVars, childVars, development, notApi>>

\* faulty variant of IsStale: an entry of exactly five minutes is stale
IsStaleInclusive(context, t) == context.timestamp <= t - StaleAfter

\* context.timestamp < fiveMinutesAgo
IsStale(context, t) == context.timestamp < t - StaleAfter

RECURSIVE StaleRequests(_, _)
\* the entries cleanupStaleRequests deletes, in the order it visits them
StaleRequests(reqs, t) ==
  IF reqs = <<>> THEN <<>>
  ELSE (IF IsStale(Head(reqs), t) THEN <<Head(reqs)>> ELSE <<>>)
         \o StaleRequests(Tail(reqs), t)

RECURSIVE FreshRequests(_, _)
\* the entries cleanupStaleRequests leaves in the map
FreshRequests(reqs, t) ==
  IF reqs = <<>> THEN <<>>
  ELSE (IF IsStale(Head(reqs), t) THEN <<>> ELSE <<Head(reqs)>>)
         \o FreshRequests(Tail(reqs), t)

\* the arguments of the warning for one deleted entry
StaleWarning(context, t) ==
  LogArgs(<<"Cleaning up stale request: ">> \o context.method \o <<" ">> \o context.url,
          Obj(<<Entry(KeyRequestId, Str(context.requestId)),
                Entry(KeyAge, Millis(t - context.timestamp))>>),
          None, None, None)

RECURSIVE WarnEach(_, _, _)
\* the logger states after the warnings for the entries of stale, in order
WarnEach(S, stale, t) ==
  IF stale = <<>> THEN S
  ELSE WarnEach(Emit(S, WARN, StaleWarning(Head(stale), t)), Tail(stale), t)

\* cleanupStaleRequests: the logger states it can leave and the count it returns
cleanupStaleRequests(s, reqs, t) ==
  [states |-> WarnEach({s}, StaleRequests(reqs, t), t),
   requests |-> FreshRequests(reqs, t),
   cleaned |-> Len(StaleRequests(reqs, t))]

\* a direct call of cleanupStaleRequests
CleanupStaleRequests ==
  /\ apiCalls < MaxApiCalls
  /\ apiCalls' = apiCalls + 1
  /\ LET r == cleanupStaleRequests(Called(Direct), activeRequests, now)
     IN /\ activeRequests' = r.requests
        /\ apiLast' = ApiCall("cleanupStaleRequests", <<>>, FALSE, FALSE, r.cleaned, 0, None)
        /\ \E s \in r.states : SetLoggerState(s)
  /\ UNCHANGED <<idSeq, ApiFixed>>

\* the setInterval callback
PeriodicCleanup ==
  /\ apiCalls < MaxApiCalls
  /\ apiCalls' = apiCalls + 1
  /\ LET r == cleanupStaleRequests(Called(Direct), activeRequests, now)
     IN /\ activeRequests' = r.requests
        /\ apiLast' = ApiCall("periodicCleanup", <<>>, FALSE, FALSE, r.cleaned, 0, None)
        /\ \E s \in (IF r.cleaned > 0
                       THEN Emit(r.states, INFO,
                                 LogArgs(<<"Cleaned up ">> \o NumToChars(r.cleaned)
                                           \o <<" stale API requests">>,
                                         Undef, None, None, None))
                       ELSE r.states) : SetLoggerState(s)
  /\ UNCHANGED <<idSeq, ApiFixed>>

(***************************************************************************)
(* EndpointLogger  (download.ts 386-437)                                   *)
(***************************************************************************)
MaxWithCalls == 2        \* number of withLogging calls explored
DefaultErrorStatus == 500

RECURSIVE CharsToNat(_)
\* the number a decimal numeral stands for
CharsToNat(chars) ==
  IF Len(chars) = 0 THEN 0
  ELSE LET d == CHOOSE n \in 0..9 : NumToChars(n) = <<chars[Len(chars)]>>
       IN 10 * CharsToNat(SubSeq(chars, 1, Len(chars) - 1)) + d

\* EndpointLogger.logRequest: the request it hands to ApiLogger.logRequest
endpointRequest(requestData) ==
  [requestId |-> Some(<<>>), method |-> GET, url |-> TestUrl,
   headers |-> Undef, body |-> requestData, query |-> Undef]

\* EndpointLogger.logResponse: the response it hands to ApiLogger.logResponse
endpointResponse(requestId, status, responseData, duration) ==
  [requestId |-> requestId, status |-> status, duration |-> Some(duration),
   responseBody |-> responseData]

\* error.status || 500, for an error whose properties can be read
errorStatus(error) ==
  IF Truthy(Field(error, KeyStatus))
    THEN CharsToNat(Field(error, KeyStatus).v) ELSE DefaultErrorStatus

\* the TypeError raised by reading a property of undefined or null
TypeErrorValue ==
  Obj(<<Entry(KeyMessage, Str(<<"T", "y", "p", "e", "E", "r", "r", "o", "r">>))>>)

\* the account of a withLogging call that ended: how (returned | threw),
\* with which value or error, and the accounts of the ApiLogger calls it
\* made after fn() settled
WithCall(requestId, outcome, value, calls) ==
  [requestId |-> requestId, outcome |-> outcome, value |-> value, calls |-> calls]

WithoutCall(i) == SubSeq(withCalls, 1, i - 1) \o SubSeq(withCalls, i + 1, Len(withCalls))

WithFixed == <<LoggerFixed, children, development, apiStats, apiCalls, notEndpoint>>

\* withLogging up to `await fn()`
WithLoggingBegin(requestData) ==
  /\ idSeq < MaxWithCalls
  /\ LET r == logRequest(activeRequests, idSeq, LoggerState, endpointRequest(requestData))
     IN /\ idSeq' = r.idSeq
        /\ activeRequests' = r.activeRequests
        /\ apiLast' = r.account
        /\ withCalls' = Append(withCalls, [requestId |-> r.requestId, startTime |-> now])
        /\ \E s \in r.loggers : SetLoggerState(s)
  /\ UNCHANGED <<withLast, WithFixed>>

\* fn() resolved with result: the rest of the try block
WithLoggingResolved(i, result) ==
  /\ i \in 1..Len(withCalls)
  /\ LET requestId == withCalls[i].requestId
         duration == now - withCalls[i].startTime
         r == logResponse(activeRequests, LoggerState,
                          endpointResponse(requestId, 200, result, duration))
     IN /\ activeRequests' = r.activeRequests
        /\ apiLast' = r.account
        /\ withLast' = Some(WithCall(requestId, "returned", result, <<r.account>>))
        /\ \E s \in r.loggers : SetLoggerState(s)
  /\ withCalls' = WithoutCall(i)
  /\ UNCHANGED <<idSeq, WithFixed>>

\* fn() rejected with error: the catch block
WithLoggingRejected(i, error) ==
  /\ i \in 1..Len(withCalls)
  /\ LET requestId == withCalls[i].requestId
         duration == now - withCalls[i].startTime
         e == logError(activeRequests, LoggerState, requestId, error, Undef)
     IN IF e.account.threw
          THEN /\ activeRequests' = e.activeRequests
               /\ apiLast' = e.account
               /\ withLast' = Some(WithCall(requestId, "threw", TypeErrorValue,
                                            <<e.account>>))
               /\ \E s \in e.loggers : SetLoggerState(s)
          ELSE \E s1 \in e.loggers :
                 LET r == logResponse(e.activeRequests, s1,
                                      endpointResponse(requestId, errorStatus(error),
                                                       Undef, duration))
                 IN /\ activeRequests' = r.activeRequests
                    /\ apiLast' = r.account
                    /\ withLast' = Some(WithCall(requestId, "threw", error,
                                                 <<e.account, r.account>>))
                    /\ \E s \in r.loggers : SetLoggerState(s)
  /\ withCalls' = WithoutCall(i)
  /\ UNCHANGED <<idSeq, WithFixed>>

(***************************************************************************)
(* DramaList  (DramaList.tsx 17-132, 163-171)                              *)
(***************************************************************************)
MaxRequests == 4         \* number of getDramaList requests explored
FewBooks == 5            \* allBooks.length < 5

CategoryAll == <<"A", "l", "l">>
CategoryRom == <<"r", "o", "m">>
TagRomance == <<"R", "o", "m", "a", "n", "c", "e">>
TagAction == <<"A", "c", "t", "i", "o", "n">>
TagDrama == <<"D", "r", "a", "m", "a">>
FailedToLoad == <<"F", "a", "i", "l", "e", "d", " ", "t", "o", " ", "l", "o", "a", "d", " ", "d", "r", "a", "m", "a", "s", ".", " ", "P", "l", "e", "a", "s", "e", " ", "t", "r", "y", " ", "a", "g", "a", "i", "n", ".">>

Book(bookId, tags) == [bookId |-> bookId, tags |-> tags]

\* str.toLowerCase()
Lower(str) == [i \in 1..Len(str) |-> ToLower(str[i])]

\* convertToDisplayDrama, without the random rating and duration
convertToDisplayDrama(book) ==
  [bookId |-> book.bookId, tags |-> book.tags,
   category |-> IF Len(book.tags) > 0 THEN book.tags[1] ELSE TagDrama,
   genre |-> IF Len(book.tags) > 0 THEN book.tags ELSE <<TagDrama>>]

RECURSIVE FlatMapBookList(_)
\* columnData.flatMap(column => column.bookList)
FlatMapBookList(columnData) ==
  IF Len(columnData) = 0 THEN <<>>
  ELSE Head(columnData).bookList \o FlatMapBookList(Tail(columnData))

\* the predicate of the category filter
MatchesCategory(drama, cat) ==
  \/ Contains(Lower(drama.category), Lower(cat))
  \/ \E t \in 1..Len(drama.tags) : Contains(Lower(drama.tags[t]), Lower(cat))

\* category && category !== 'All' ? newDramas.filter(...) : newDramas
FilterDramas(newDramas, cat) ==
  IF Len(cat) > 0 /\ cat # CategoryAll
    THEN SelectSeq(newDramas, LAMBDA d : MatchesCategory(d, cat))
    ELSE newDramas

\* loadDramas(pageNumber) up to `await getDramaList`, called with
\* loadingRef.current = ref and the state error = err, by the render whose
\* category is cat
loadDramas(ref, err, pageNumber, cat) ==
  IF ref
    THEN /\ loadingRef' = ref /\ listError' = err
         /\ UNCHANGED <<listLoading, inFlight, requestSeq>>
    ELSE /\ loadingRef' = TRUE
         /\ listLoading' = TRUE
         /\ listError' = Null
         /\ requestSeq' = requestSeq + 1
         /\ inFlight' = Append(inFlight, [id |-> requestSeq + 1,
                                          pageNumber |-> pageNumber, category |-> cat])

\* the pagination controls are on the page
PaginationShown ==
  /\ ~(listError # Null /\ Len(dramas) = 0)
  /\ Len(dramas) > 0 /\ (hasPrevPage \/ hasNextPage)

\* handleNextPage
HandleNextPage ==
  /\ PaginationShown
  /\ requestSeq < MaxRequests
  /\ IF ~hasNextPage \/ loadingRef
       THEN UNCHANGED <<currentPage, loadingRef, listError, listLoading, inFlight,
                        requestSeq>>
       ELSE /\ currentPage' = currentPage + 1
            /\ loadDramas(loadingRef, listError, currentPage + 1, category)
  /\ UNCHANGED <<category, dramas, hasNextPage, hasPrevPage, dramasFrom, displayed, notList>>

\* handlePrevPage
HandlePrevPage ==
  /\ PaginationShown
  /\ requestSeq < MaxRequests
  /\ IF ~hasPrevPage \/ loadingRef
       THEN UNCHANGED <<currentPage, loadingRef, listError, listLoading, inFlight,
                        requestSeq>>
       ELSE /\ currentPage' = currentPage - 1
            /\ loadDramas(loadingRef, listError, currentPage - 1, category)
  /\ UNCHANGED <<category, dramas, hasNextPage, hasPrevPage, dramasFrom, displayed, notList>>

\* the onClick of "Try Again", displayed when error && dramas.length === 0
TryAgain ==
  /\ listError # Null /\ Len(dramas) = 0
  /\ requestSeq < MaxRequests
  /\ currentPage' = 1 /\ hasNextPage' = TRUE /\ hasPrevPage' = FALSE
  /\ loadDramas(FALSE, Null, 1, category)
  /\ UNCHANGED <<category, dramas, dramasFrom, displayed, notList>>

\* the effect of [category, loadDramas], run after the render with the new category
CategoryChange(cat) ==
  /\ cat # category
  /\ requestSeq < MaxRequests
  /\ category' = cat
  /\ dramas' = <<>> /\ dramasFrom' = 0
  /\ currentPage' = 1 /\ hasNextPage' = TRUE /\ hasPrevPage' = FALSE
  /\ loadDramas(FALSE, Null, 1, cat)
  /\ UNCHANGED <<displayed, notList>>

InFlightWithout(k) == SubSeq(inFlight, 1, k - 1) \o SubSeq(inFlight, k + 1, Len(inFlight))

\* getDramaList resolved for the k-th pending request: the rest of the try
\* block and the finally block
ResponseArrives(k, columnData) ==
  /\ k \in 1..Len(inFlight)
  /\ LET request == inFlight[k]
         allBooks == FlatMapBookList(columnData)
         newDramas == [i \in 1..Len(allBooks) |-> convertToDisplayDrama(allBooks[i])]
     IN /\ dramas' = FilterDramas(newDramas, request.category)
        /\ dramasFrom' = request.id
        /\ displayed' = displayed \cup {request.id}
        /\ hasPrevPage' = (request.pageNumber > 1)
        /\ hasNextPage' = (Len(allBooks) > 0 /\ ~(Len(allBooks) < FewBooks))
  /\ listLoading' = FALSE
  /\ loadingRef' = FALSE
  /\ inFlight' = InFlightWithout(k)
  /\ UNCHANGED <<category, currentPage, listError, requestSeq, notList>>

\* getDramaList rejected for the k-th pending request: the catch block and
\* the finally block
ResponseFails(k) ==
  /\ k \in 1..Len(inFlight)
  /\ listError' = FailedToLoad
  /\ hasNextPage' = FALSE
  /\ listLoading' = FALSE
  /\ loadingRef' = FALSE
  /\ inFlight' = InFlightWithout(k)
  /\ UNCHANGED <<category, dramas, dramasFrom, displayed, currentPage, hasPrevPage,
                 requestSeq, notList>>

(***************************************************************************)
(* Specifications                                                          *)
(***************************************************************************)
InitChapters ==
  /\ gacPc = "idle" /\ gacCaller = "none"
  /\ totalEpisodes = 0 /\ totalPages = 0 /\ page = 0
  /\ allChapters = <<>> /\ fetchLog = <<>>
  /\ fdPc = "idle" /\ detailEpisodes = <<>> /\ chapters = <<>>
  /\ selectedChapter = None /\ videoUrl = Null /\ loading = FALSE
  /\ consoleOut = {}

InitUrl == urlPc = "init" /\ urlChapter = [chapterId |-> 1, cdnList |-> None] /\ urlResult = Null

\* new ApiLogger(defaultLogger) in an environment that is development or not
InitApiLogger(dev) ==
  /\ activeRequests = <<>> /\ idSeq = 0 /\ apiCalls = 0
  /\ apiLast = ApiCall("none", <<>>, FALSE, FALSE, 0, 0, None)
  /\ apiStats = getActiveRequestsStats(<<>>, 0)
  /\ development = dev

InitEndpoint == withCalls = <<>> /\ withLast = None

\* the component after its first render and the effect that follows it
InitList(cat) ==
  /\ category = cat
  /\ dramas = <<>> /\ dramasFrom = 0 /\ displayed = {}
  /\ currentPage = 1 /\ hasNextPage = TRUE /\ hasPrevPage = FALSE
  /\ listError = Null
  /\ loadingRef = TRUE /\ listLoading = TRUE
  /\ requestSeq = 1
  /\ inFlight = <<[id |-> 1, pageNumber |-> 1, category |-> cat]>>

\* new Logger(partial) in a runtime that is a server or not
InitLogger(server, partial) ==
  /\ isServer = server
  /\ config = ConstructedConfig(server, partial)
  /\ logBuffer = <<>>
  /\ flushTimeout = IF server /\ ConstructedConfig(server, partial).enableFileLogging
                      THEN "active" ELSE "none"
  /\ console = <<>> /\ flushJobs = <<>> /\ jobPhase = <<>> /\ fileLog = <<>>
  /\ nextId = 1 /\ lastCall = createLogEntry(0, 0, DEBUG, PlainArgs)
  /\ lastWrite = NoWrite /\ unhandled = 0
  /\ children = {} /\ lastVia = Direct

\* a process started at time 0 on a disk that works, with no log directory
InitFreshDisk ==
  /\ now = 0 /\ ticks = 0 /\ diskFaulty = FALSE
  /\ dirExists = FALSE /\ files = {}

NoPartial ==
  [logLevel |-> None, enableFileLogging |-> None, enableConsoleLogging |-> None,
   maxLogFiles |-> None, maxFileSize |-> None]

InitSan == sanPc = "build" /\ sanInput = JNull /\ sanPath = <<>> /\ sanOutput = JNull

InitTr == trPc = "init" /\ trBody = Undef /\ trMax = 0 /\ trResult = Undef

Init == InitChapters /\ InitApiLogger(TRUE) /\ InitEndpoint /\ InitList(CategoryAll) /\ InitUrl /\ InitLogger(TRUE, NoPartial) /\ InitFreshDisk /\ InitSan /\ InitTr

NextChapters ==
  \/ \E b \in BookIds, n \in 0..MaxEpisodes : CallGetAllChapters(b, n)
  \/ \E resp \in ChapterResponses : FetchResolve(resp)
  \/ FetchReject
  \/ DelayElapsed
  \/ FetchDramaData
  \/ \E resp \in DetailResponses : DetailResolve(resp)
  \/ DetailReject
  \/ ChaptersReturned

Next == NextChapters

\* the paginated fetcher and the episode merger
Spec == Init /\ [][Next]_vars

\* getBestVideoUrl on every chapter within the bounds
InitUrlInputs ==
  /\ InitChapters /\ InitApiLogger(TRUE) /\ InitEndpoint /\ InitList(CategoryAll) /\ InitLogger(TRUE, NoPartial) /\ InitFreshDisk /\ InitSan /\ InitTr
  /\ urlPc = "init" /\ urlChapter \in UrlChapters /\ urlResult = Null

NextUrl == CallGetBestVideoUrl

SpecUrl == InitUrlInputs /\ [][NextUrl]_vars

\* one Logger, constructed with any configuration in a server or a browser
InitLoggers ==
  /\ InitChapters /\ InitApiLogger(TRUE) /\ InitEndpoint /\ InitList(CategoryAll) /\ InitUrl /\ InitSan /\ InitTr
  /\ InitFreshDisk
  /\ \E server \in BOOLEAN, partial \in PartialConfigs : InitLogger(server, partial)

NextLogger ==
  \/ \E level \in LogLevels : LogCall(level)
  \/ TimerFlush
  \/ \E j \in 1..Len(flushJobs) : FlushContinue(j)
  \/ \E newConfig \in ConfigUpdates : UpdateConfig(newConfig)
  \/ Shutdown

SpecLogger == InitLoggers /\ [][NextLogger]_vars

\* the log files an earlier run may have left: the file of the day before,
\* two rotated files of equal age, and the file of the day near the limit
OlderFiles ==
  {[name |-> <<0>>, size |-> 7, mtime |-> 100],
   [name |-> <<0, 50>>, size |-> MB + 1, mtime |-> 50],
   [name |-> <<0, 60>>, size |-> MB + 1, mtime |-> 50]}

TodaysFiles ==
  {[name |-> <<1>>, size |-> size, mtime |-> DayMs + 2] : size \in {MB - 1, MB, MB + 1}}

InitialDirectories ==
  {old \cup today : old \in SUBSET OlderFiles,
                     today \in {{}} \cup {{f} : f \in TodaysFiles}}

\* a server logger with a retention configuration, started on the second
\* day on a disk that works, the log directory absent or as left before
InitFiles ==
  /\ InitChapters /\ InitApiLogger(TRUE) /\ InitEndpoint /\ InitList(CategoryAll) /\ InitUrl /\ InitSan /\ InitTr
  /\ \E partial \in SinkConfigs : InitLogger(TRUE, partial)
  /\ now = DayMs + 5 /\ ticks = 0
  /\ diskFaulty = FALSE
  /\ \/ dirExists = FALSE /\ files = {}
     \/ dirExists = TRUE /\ files \in InitialDirectories

\* the levels and the clock advances explored with the log directory
FileLevels == {INFO, ERROR}
FileTicks == {DayMs}

NextFiles ==
  \/ \E level \in FileLevels : LogCall(level)
  \/ TimerFlush
  \/ \E j \in 1..Len(flushJobs) : FlushContinue(j)
  \/ \E d \in FileTicks : Tick(d)

\* the durable sink on a disk that works: rotation and retention
SpecFiles == InitFiles /\ [][NextFiles]_vars

\* the same logger on a disk whose operations can throw, the log directory
\* absent, empty, or holding every file above with the file of the day over
\* the limit
FaultyDirectories ==
  {{}, OlderFiles \cup {[name |-> <<1>>, size |-> MB + 1, mtime |-> DayMs + 2]}}

InitFaults ==
  /\ InitChapters /\ InitApiLogger(TRUE) /\ InitEndpoint /\ InitList(CategoryAll) /\ InitUrl /\ InitSan /\ InitTr
  /\ \E partial \in SinkConfigs : InitLogger(TRUE, partial)
  /\ now = DayMs + 5 /\ ticks = 0
  /\ diskFaulty = TRUE
  /\ \/ dirExists = FALSE /\ files = {}
     \/ dirExists = TRUE /\ files \in FaultyDirectories

NextFaults ==
  \/ \E level \in FileLevels : LogCall(level)
  \/ TimerFlush
  \/ \E j \in 1..Len(flushJobs) : FlushContinue(j)

\* the durable sink on a disk that fails
SpecFaults == InitFaults /\ [][NextFaults]_vars

\* a server logger at level INFO or WARN and the child loggers made from it
ChildConfigs == {[NoPartial EXCEPT !.logLevel = l] : l \in {None, Some(WARN)}}

InitChild ==
  /\ InitChapters /\ InitApiLogger(TRUE) /\ InitEndpoint /\ InitList(CategoryAll) /\ InitUrl /\ InitSan /\ InitTr
  /\ InitFreshDisk
  /\ \E partial \in ChildConfigs : InitLogger(TRUE, partial)

NextChild ==
  \/ \E source \in ChildSources, requestId \in ChildRequestIds, userId \in ChildUserIds :
        CreateChild(source, requestId, userId)
  \/ \E c \in children, level \in LogLevels : ChildLog(c, level)
  \/ \E c \in children : ChildApiRequest(c)
  \/ \E c \in children, status \in TestStatuses : ChildApiResponse(c, status)
  \/ \E c \in children : ChildApiError(c)
  \/ TimerFlush
  \/ \E j \in 1..Len(flushJobs) : FlushContinue(j)

\* child loggers over one parent
SpecChild == InitChild /\ [][NextChild]_vars

\* a server logger constructed with any configuration
InitServerLoggers ==
  /\ InitChapters /\ InitApiLogger(TRUE) /\ InitEndpoint /\ InitList(CategoryAll) /\ InitUrl /\ InitSan /\ InitTr
  /\ InitFreshDisk
  /\ \E partial \in PartialConfigs : InitLogger(TRUE, partial)

\* the timer fires while it is installed, and the continuations of a drain
\* that awaits are run
FairDrains ==
  /\ WF_vars(TimerFlush)
  /\ WF_vars(\E j \in 1..Len(flushJobs) : FlushContinue(j))

\* log, updateConfig and shutdown calls on a server whose timer keeps firing
SpecLoggerLive == InitServerLoggers /\ [][NextLogger]_vars /\ FairDrains

\* log calls while drains are in progress
MaxDrainCalls == 3       \* number of log calls explored with the drains

DrainLevels == {INFO, ERROR}

\* setInterval(() => this.flushLogs(), 5000)
FlushInterval == 5000

InitDrain ==
  /\ InitChapters /\ InitApiLogger(TRUE) /\ InitEndpoint /\ InitList(CategoryAll) /\ InitUrl /\ InitSan /\ InitTr
  /\ InitFreshDisk
  /\ InitLogger(TRUE, NoPartial)

NextDrain ==
  \/ \E level \in DrainLevels : LogCallUpTo(level, MaxDrainCalls)
  \/ TimerFlush
  \/ \E j \in 1..Len(flushJobs) : FlushContinue(j)
  \/ Shutdown
  \/ Tick(FlushInterval)

\* a server logger with its durable sink on
SpecDrain == InitDrain /\ [][NextDrain]_vars

\* the requests, responses and errors handed to the ApiLogger
ApiIds == {<<"r", "1">>, generateRequestId(0)}

ApiRequests ==
  [requestId : {None, Some(<<"r", "1">>)}, method : {GET}, url : {TestUrl},
   headers : {Undef}, body : {Undef}, query : {Undef}]

ApiResponses ==
  [requestId : ApiIds, status : {200}, duration : {None}, responseBody : {Undef}]

ApiErrors == {TestError, Undef}

ApiTicks == {1, StaleAfter}

\* a logger that writes to the console only
ConsoleOnly == [NoPartial EXCEPT !.enableFileLogging = Some(FALSE)]

\* the development environment (getEnvironment() when NODE_ENV is not set)
InitApi ==
  /\ InitChapters /\ InitUrl /\ InitSan /\ InitTr
  /\ InitFreshDisk
  /\ InitLogger(TRUE, ConsoleOnly)
  /\ InitApiLogger(TRUE) /\ InitEndpoint /\ InitList(CategoryAll)

NextApi ==
  \/ \E request \in ApiRequests : LogRequest(request)
  \/ \E response \in ApiResponses : LogResponse(response)
  \/ \E requestId \in ApiIds, error \in ApiErrors : LogError(requestId, error, Undef)
  \/ GetActiveRequestsStats
  \/ CleanupStaleRequests
  \/ PeriodicCleanup
  \/ \E d \in ApiTicks : Tick(d)

\* the life of the request contexts of an ApiLogger over a logger that
\* writes to the console
SpecApi == InitApi /\ [][NextApi]_vars

\* the responses of every status and duration explored
ApiDurations == {None, Some(0), Some(slowRequestThreshold), Some(slowRequestThreshold + 1)}

ApiStatuses == {200, 399, 400}

TimedResponses ==
  [requestId : {<<"r", "1">>}, status : ApiStatuses, duration : ApiDurations,
   responseBody : {Undef}]

ResponseTicks == {1, slowRequestThreshold}

NextApiResponse ==
  \/ \E request \in {r \in ApiRequests : IsSome(r.requestId)} : LogRequest(request)
  \/ \E response \in TimedResponses : LogResponse(response)
  \/ \E d \in ResponseTicks : Tick(d)

\* any environment
InitApiResponse ==
  /\ InitChapters /\ InitUrl /\ InitSan /\ InitTr
  /\ InitFreshDisk
  /\ InitLogger(TRUE, ConsoleOnly)
  /\ \E dev \in BOOLEAN : InitApiLogger(dev) /\ InitEndpoint /\ InitList(CategoryAll)

\* requests and their responses, fast and slow
SpecApiResponse == InitApiResponse /\ [][NextApiResponse]_vars

\* requests and responses that carry secrets under sensitive keys
KeyAuthorization == <<"A", "u", "t", "h", "o", "r", "i", "z", "a", "t", "i", "o", "n">>

DataRequests ==
  [requestId : {Some(<<"r", "1">>)}, method : {GET}, url : {TestUrl},
   headers : {Undef, Obj(<<Entry(KeyAuthorization, Str(Secret))>>)},
   body : {Undef, Obj(<<Entry(KeyPassword, Str(Secret))>>)},
   query : {Undef, Obj(<<Entry(KeyToken, Str(Secret))>>)}]

DataResponses ==
  [requestId : {<<"r", "1">>}, status : {200, 400}, duration : {None},
   responseBody : {Undef} \cup LoginPayloads]

NextApiData ==
  \/ \E request \in DataRequests : LogRequest(request)
  \/ \E response \in DataResponses : LogResponse(response)

\* requests and responses with payloads, in any environment
SpecApiData == InitApiResponse /\ [][NextApiData]_vars

\* the results and errors of fn explored
WithResults == {Undef, Obj(<<Entry(KeyUserId, Str(<<"1", "2", "3">>))>>)}

HttpError ==
  Obj(<<Entry(KeyMessage, Str(<<"N", "o", "t", " ", "F", "o", "u", "n", "d">>)),
        Entry(KeyStatus, Num(<<"4", "0", "4">>))>>)

WithErrors == {TestError, HttpError, Undef}

NextEndpoint ==
  \/ \E requestData \in WithResults : WithLoggingBegin(requestData)
  \/ \E i \in 1..MaxWithCalls, result \in WithResults : WithLoggingResolved(i, result)
  \/ \E i \in 1..MaxWithCalls, error \in WithErrors : WithLoggingRejected(i, error)
  \/ PeriodicCleanup
  \/ \E d \in ApiTicks : Tick(d)

\* calls of EndpointLogger.withLogging on the default ApiLogger, whose
\* periodic cleanup runs between them
SpecEndpoint == InitApi /\ [][NextEndpoint]_vars

\* the categories the parent may pass, and the pages the server may return
Categories == {<<>>, CategoryAll, CategoryRom}

Columns ==
  {<<>>,
   <<[bookList |-> <<Book(1, <<TagRomance>>), Book(2, <<TagAction>>)>>]>>,
   <<[bookList |-> <<Book(1, <<TagRomance>>), Book(2, <<TagAction>>), Book(3, <<>>)>>],
     [bookList |-> <<Book(4, <<TagAction, TagRomance>>), Book(5, <<TagAction>>)>>]>>}

InitDramaList ==
  /\ InitChapters /\ InitUrl /\ InitSan /\ InitTr
  /\ InitFreshDisk /\ InitLogger(TRUE, NoPartial)
  /\ InitApiLogger(TRUE) /\ InitEndpoint
  /\ \E cat \in Categories : InitList(cat)

NextDramaList ==
  \/ HandleNextPage
  \/ HandlePrevPage
  \/ TryAgain
  \/ \E cat \in Categories : CategoryChange(cat)
  \/ \E k \in 1..MaxRequests, columnData \in Columns : ResponseArrives(k, columnData)
  \/ \E k \in 1..MaxRequests : ResponseFails(k)

\* a mounted DramaList, its user and its parent
SpecDramaList == InitDramaList /\ [][NextDramaList]_vars

InitPayload ==
  /\ InitChapters /\ InitApiLogger(TRUE) /\ InitEndpoint /\ InitList(CategoryAll) /\ InitUrl /\ InitSan /\ InitTr
  /\ InitFreshDisk
  /\ \E partial \in ChildConfigs : InitLogger(TRUE, partial)

NextPayload ==
  \/ \E level \in LogLevels, payload \in LoginPayloads : LogPayload(level, payload)
  \/ TimerFlush
  \/ \E j \in 1..Len(flushJobs) : FlushContinue(j)

\* payloads logged through the base logger
SpecPayload == InitPayload /\ [][NextPayload]_vars

\* sanitizeData on the payloads built from a leaf by at most MaxDepth wrappings
InitSanInputs ==
  /\ InitChapters /\ InitApiLogger(TRUE) /\ InitEndpoint /\ InitList(CategoryAll) /\ InitUrl /\ InitLogger(TRUE, NoPartial) /\ InitFreshDisk /\ InitTr
  /\ sanPc = "build" /\ sanInput \in SanLeaves /\ sanPath = <<>> /\ sanOutput = JNull

NextSan ==
  \/ \E w \in Wrappers : WrapPayload(w)
  \/ CallSanitizeData

SpecSanitize == InitSanInputs /\ [][NextSan]_vars

\* truncateResponseBody on every body and every maximum within the bounds
InitTrInputs ==
  /\ InitChapters /\ InitApiLogger(TRUE) /\ InitEndpoint /\ InitList(CategoryAll) /\ InitUrl /\ InitLogger(TRUE, NoPartial) /\ InitFreshDisk /\ InitSan
  /\ trPc = "init" /\ trBody \in TrBodies /\ trMax \in TrMaxLengths /\ trResult = Undef

NextTr == CallTruncateResponseBody

SpecTruncate == InitTrInputs /\ [][NextTr]_vars

(***************************************************************************)
(* Properties                                                              *)
(***************************************************************************)
\* ceil(n / 6): the least k with 6 * k >= n
IsCeilOfSixth(k, n) == 6 * k >= n /\ 6 * (k - 1) < n

\* the pages of the current getAllChapters call that returned zero items
EmptyPages ==
  {i \in 1..Len(fetchLog) : fetchLog[i].status = "ok" /\ Len(fetchLog[i].items) = 0}

FailedPages == {i \in 1..Len(fetchLog) : fetchLog[i].status = "fail"}

\* C1: one getAllChapters call with a non-empty bookId fetches pages 1, 2, ...
\* in order, page p at start index 1 + 6 * (p - 1); when it returns it has issued
\* ceil(totalEpisodes / 6) fetches, failed ones included, unless a page
\* returned zero items, and then that page is the last one fetched.
C1_FetchesIssued ==
  /\ \A i \in 1..Len(fetchLog) :
       fetchLog[i].page = i /\ fetchLog[i].startIndex = 1 + 6 * (i - 1)
  /\ gacPc = "returned" =>
       IF EmptyPages = {}
         THEN IsCeilOfSixth(Len(fetchLog), totalEpisodes)
         ELSE EmptyPages = {Len(fetchLog)}

C1_Witness ==
  /\ gacPc = "returned" /\ gacCaller = "direct"
  /\ totalEpisodes = 13 /\ Len(fetchLog) = 3
  /\ FailedPages = {2} /\ EmptyPages = {}

RECURSIVE ItemsOfOkPages(_, _)
\* the items of the successfully fetched pages among the first i, in page order
ItemsOfOkPages(log, i) ==
  IF i = 0 THEN <<>>
  ELSE ItemsOfOkPages(log, i - 1) \o
         (IF log[i].status = "ok" THEN log[i].items ELSE <<>>)

\* C2: a failed page fetch never makes getAllChapters reject; the loop goes
\* on with the next page, and the value returned is the concatenation, in
\* page order, of the items of the pages fetched successfully.
C2_FailedPageSkipped ==
  /\ FailedPages # {} => gacPc # "thrown"
  /\ gacPc = "returned" =>
       /\ allChapters = ItemsOfOkPages(fetchLog, Len(fetchLog))
       /\ \A i \in FailedPages : i < totalPages => Len(fetchLog) > i

C2_Witness ==
  /\ gacPc = "returned"
  /\ Len(fetchLog) = 3 /\ FailedPages = {2}
  /\ Len(fetchLog[1].items) = 2 /\ Len(fetchLog[3].items) = 1
  /\ Len(allChapters) = 3

\* the merge of fetchDramaData has run
Merged == fdPc = "done" /\ gacCaller = "fetchDramaData" /\ gacPc = "returned"

\* C3: the merged episode list has the length of the chapter list returned
\* by getAllChapters and the same chapterId at every index, whatever the
\* length of the detail list.
C3_MergeKeepsChapterList ==
  Merged =>
    /\ Len(chapters) = Len(allChapters)
    /\ \A i \in 1..Len(allChapters) : chapters[i].chapterId = allChapters[i].chapterId

C3_Witness ==
  /\ Merged
  /\ Len(detailEpisodes) = 2 /\ Len(chapters) = 3

\* C4: in the merged list every entry at an index both lists have carries
\* chapterIndex, isCharge, isPay (0 when the detail entry has none) and the
\* size list (empty when the detail entry has none) of the detail entry at
\* that index; every entry past the end of the detail list is the chapter
\* entry unchanged.
C4_MergeBackfill ==
  Merged =>
    \A i \in 1..Len(chapters) :
      IF i <= Len(detailEpisodes)
        THEN LET d == detailEpisodes[i]
             IN /\ chapters[i].chapterIndex = d.chapterIndex
                /\ chapters[i].isCharge = d.isCharge
                /\ chapters[i].isPay = IF IsSome(d.isPay) THEN d.isPay ELSE Some(0)
                /\ chapters[i].chapterSizeVoList =
                     IF IsSome(d.chapterSizeVoList) THEN d.chapterSizeVoList
                     ELSE Some(<<>>)
        ELSE chapters[i] = allChapters[i]

C4_Witness ==
  /\ Merged
  /\ Len(detailEpisodes) = 2 /\ Len(chapters) = 3
  /\ \E i \in 1..2 : ~IsSome(detailEpisodes[i].isPay)
  /\ \E i \in 1..2 : ~IsSome(detailEpisodes[i].chapterSizeVoList)
  /\ chapters[3].chapterIndex = allChapters[3].chapterIndex

\* the detail fetch of fetchDramaData resolved with no metadata entry
DetailWasEmpty ==
  /\ fdPc \in {"awaitChapters", "done"}
  /\ detailEpisodes = <<>>
  /\ "Error fetching drama data" \notin consoleOut

\* C5: when the detail fetch yields zero metadata entries, fetchDramaData
\* sets the episode list to empty, logs the warning and neither calls
\* getAllChapters nor issues a page fetch.
C5_EmptyDetailShortCircuit ==
  DetailWasEmpty =>
    /\ fdPc = "done"
    /\ chapters = <<>>
    /\ "No episodes found in detail API" \in consoleOut
    /\ fetchLog = <<>> /\ gacPc = "idle"
    /\ loading = FALSE

C5_Witness == DetailWasEmpty /\ fdPc = "done" /\ chapters = <<>>

\* C6: getBestVideoUrl returns null exactly when no CDN entry has a variant;
\* otherwise it answers from the first CDN entry that has variants: the path
\* of its first default non-gated variant, else of its first non-gated
\* variant, else of its first variant.
C6_BestVideoUrl ==
  urlPc = "done" =>
    LET cl == IF IsSome(urlChapter.cdnList) THEN urlChapter.cdnList[1] ELSE <<>>
        withVariants == {c \in 1..Len(cl) :
                           /\ IsSome(cl[c].videoPathList)
                           /\ Len(cl[c].videoPathList[1]) > 0}
    IN IF withVariants = {} THEN urlResult = Null
       ELSE LET c == Min(withVariants)
                l == cl[c].videoPathList[1]
                defaultFree == {k \in 1..Len(l) : l[k].isDefault = 1 /\ l[k].isVipEquity = 0}
                free == {k \in 1..Len(l) : l[k].isVipEquity = 0}
            IN /\ urlResult # Null
               /\ urlResult = l[IF defaultFree # {} THEN Min(defaultFree)
                                ELSE IF free # {} THEN Min(free) ELSE 1].videoPath
               /\ urlResult[1] = c

C6_Witness ==
  /\ urlPc = "done"
  /\ IsSome(urlChapter.cdnList) /\ Len(urlChapter.cdnList[1]) = 2
  /\ ~IsSome(urlChapter.cdnList[1][1].videoPathList)
  /\ IsSome(urlChapter.cdnList[1][2].videoPathList)
  /\ LET l == urlChapter.cdnList[1][2].videoPathList[1]
     IN /\ Len(l) = 3
        /\ l[1].isVipEquity = 1 /\ l[1].isDefault = 1
        /\ l[2].isVipEquity = 0 /\ l[2].isDefault = 0
        /\ l[3].isVipEquity = 0 /\ l[3].isDefault = 1
  /\ urlResult = <<2, 3>>

\* the entry of the latest log call
LastEntry == lastCall

InSeq(x, q) == \E i \in 1..Len(q) : q[i] = x

\* x has reached the durable sink: it is buffered, in a drain or written
InDurableSink(x, buf, jobs, file) ==
  \/ InSeq(x, buf)
  \/ \E j \in 1..Len(jobs) : InSeq(x, jobs[j])
  \/ InSeq(x, file)

\* C7: a log call of severity below the configured level (as updateConfig
\* last left it) reaches neither the console nor the buffer; a call at or
\* above it reaches the console when console logging is enabled and the
\* durable sink when file logging is enabled on a server, and no sink that is
\* not enabled.
C7_LevelFilter ==
  [][nextId' # nextId =>
       IF lastCall'.level < config.logLevel
         THEN UNCHANGED <<console, logBuffer, flushJobs, fileLog>>
         ELSE /\ IF config.enableConsoleLogging
                   THEN /\ Len(console') = Len(console) + 1
                        /\ SubSeq(console', 1, Len(console)) = console
                        /\ console'[Len(console')].entry = LastEntry'
                   ELSE UNCHANGED console
              /\ IF isServer /\ config.enableFileLogging
                   THEN /\ ~InDurableSink(LastEntry', logBuffer, flushJobs, fileLog)
                        /\ InDurableSink(LastEntry', logBuffer', flushJobs', fileLog')
                   ELSE UNCHANGED <<logBuffer, flushJobs, fileLog>>
    ]_vars

C7_Witness ==
  /\ isServer /\ config.enableFileLogging /\ config.enableConsoleLogging
  /\ config.logLevel = WARN
  /\ Len(console) = 1 /\ console[1].method = "debug"
  /\ console[1].entry.id = 1 /\ console[1].entry.level = DEBUG
  /\ Len(logBuffer) = 1 /\ logBuffer[1].id = 1 /\ logBuffer[1].level = DEBUG
  /\ lastCall.id = 2 /\ lastCall.level = INFO

\* C8: an accepted ERROR or FATAL call on a logger whose durable sink is
\* enabled empties the buffer within the call and hands the entries buffered
\* before it, followed by the new entry, to the file writer, whether or not a
\* timer is installed; an accepted call of lower severity only appends its
\* entry to the buffer.
C8_SevereEntriesDrain ==
  [][(nextId' # nextId /\ lastCall'.level >= config.logLevel
        /\ isServer /\ config.enableFileLogging) =>
       IF lastCall'.level >= ERROR
         THEN LET drained == Append(logBuffer, LastEntry')
              IN /\ logBuffer' = <<>>
                 /\ fileLog' = Append(fileLog, Head(drained))
                 /\ flushJobs' = IF Len(drained) > 1
                                   THEN Append(flushJobs, Tail(drained))
                                   ELSE flushJobs
         ELSE /\ logBuffer' = Append(logBuffer, LastEntry')
              /\ UNCHANGED <<flushJobs, fileLog>>
    ]_vars

C8_Witness ==
  /\ isServer /\ flushTimeout = "none"
  /\ logBuffer = <<>>
  /\ Len(fileLog) = 1 /\ fileLog[1].level = INFO
  /\ Len(flushJobs) = 1 /\ Len(flushJobs[1]) = 1 /\ flushJobs[1][1].level = ERROR
  /\ lastCall.id = 2 /\ lastCall.level = ERROR

\* the console item of the log entry e
ConsoleItem(e) == [method |-> ConsoleMethod(e.level), text |-> "entry", entry |-> e]

\* C15: no failure of the durable sink (mkdir, stat, rename, sweep, append)
\* leaves a rejected promise without handler; an accepted log call puts its
\* entry on the console whatever its write does; a write that fails appends
\* nothing to the file and leaves its drain waiting to report; the report is
\* one console.error naming the failure, and after it the drain goes on with
\* the entries that follow the failed one.
C15_SinkFailureContained ==
  [][/\ unhandled' = 0
     /\ (nextId' # nextId /\ lastCall'.level >= config.logLevel
           /\ config.enableConsoleLogging)
          => /\ Len(console') = Len(console) + 1
             /\ console'[Len(console')] = ConsoleItem(lastCall')
     /\ (lastWrite' # lastWrite /\ lastWrite'.result = "failed")
          => /\ fileLog' = fileLog
             /\ \E j \in 1..Len(flushJobs') :
                   /\ jobPhase'[j].phase = "report"
                   /\ Head(flushJobs'[j]).id = lastWrite'.id
     /\ (nextId' = nextId /\ console' # console)
          => \E j \in 1..Len(flushJobs) :
                /\ jobPhase[j].phase = "report"
                /\ console' = Append(console, FailureReport(Head(flushJobs[j])))
                /\ UNCHANGED <<fileLog, files, logBuffer>>
                /\ IF Len(flushJobs[j]) > 1
                      THEN /\ flushJobs' = [flushJobs EXCEPT ![j] = Tail(@)]
                           /\ jobPhase'[j].phase = "next"
                      ELSE flushJobs' = SubSeq(flushJobs, 1, j - 1)
                                          \o SubSeq(flushJobs, j + 1, Len(flushJobs))
     /\ (nextId' = nextId /\ console' = console)
          => \A j \in 1..Len(flushJobs) :
                jobPhase[j].phase = "report"
                  => \E k \in 1..Len(flushJobs') :
                        flushJobs'[k] = flushJobs[j] /\ jobPhase'[k].phase = "report"
    ]_vars

C15_Witness ==
  /\ unhandled = 0 /\ flushJobs = <<>>
  /\ Len(console) = 3
  /\ console[1].entry.id = 1 /\ console[2].entry.id = 2
  /\ console[3] = FailureReport(console[1].entry)
  /\ Len(fileLog) = 1 /\ fileLog[1].id = 2 /\ fileLog[1].level = ERROR

\* C16: a write that ends with its append has renamed the file of the day
\* exactly when that file existed with more than maxFileSize MB: then the
\* old file is found under the name with the timestamp suffix, no file of the
\* original name is left by the rename, and the entry is appended to a file
\* of the original name created since; otherwise no file is renamed and the
\* entry is appended to the file of the day, created if absent.
C16_RotateBeforeAppend ==
  lastWrite.result = "written" =>
    LET w == lastWrite
        old == FilesNamed(w.before, w.path)
        over == old # {} /\ \A f \in old : f.size > w.limit * MB
        others(fs) == {f \in fs : f.name # w.path}
    IN /\ Cardinality(FilesNamed(w.after, w.path)) = 1
       /\ SizeOf(w.after, w.path) = SizeOf(w.appendOn, w.path) + 1
       /\ others(w.after) = others(w.appendOn)
       /\ IF over
            THEN /\ w.rotated
                 /\ Len(w.renamedTo) = 2 /\ w.renamedTo[1] = w.path[1]
                 /\ FilesNamed(w.sweepIn, w.path) = {}
                 /\ FilesNamed(w.sweepIn, w.renamedTo) =
                      {[f EXCEPT !.name = w.renamedTo] : f \in old}
                 /\ \A f \in old : f \notin w.appendOn
            ELSE /\ ~w.rotated
                 /\ w.appendOn = w.before

C16_Witness ==
  /\ lastWrite.result = "written" /\ lastWrite.rotated
  /\ SizeOf(lastWrite.before, lastWrite.path) = MB + 1
  /\ SizeOf(lastWrite.after, lastWrite.path) = 1
  /\ FilesNamed(lastWrite.after, lastWrite.renamedTo) # {}

\* C17: the sweep that follows a rotation keeps min(maxLogFiles, n) of the n
\* log files the rename left, deletes the others and creates none, and every
\* file it keeps has a modification time at or after that of every file it
\* deletes.
C17_RetentionSweep ==
  (lastWrite.rotated /\ lastWrite.result = "written") =>
    LET w == lastWrite
        n == Cardinality(w.sweepIn)
    IN /\ w.sweepOut \subseteq w.sweepIn
       /\ Cardinality(w.sweepOut) <= w.keep
       /\ Cardinality(w.sweepOut) = IF n < w.keep THEN n ELSE w.keep
       /\ \A k \in w.sweepOut, d \in w.sweepIn \ w.sweepOut : k.mtime >= d.mtime

C17_Witness ==
  /\ lastWrite.rotated /\ lastWrite.result = "written"
  /\ lastWrite.keep = 2
  /\ Cardinality(lastWrite.sweepIn) = 4
  /\ lastWrite.sweepOut =
       {[name |-> <<0>>, size |-> 7, mtime |-> 100],
        [name |-> lastWrite.renamedTo, size |-> MB + 1, mtime |-> DayMs + 2]}

\* C23: the fetches of one getAllChapters call are issued one after the
\* other, by increasing page: only the latest can be pending, and only while
\* the call awaits it.
C23_SequentialPages ==
  /\ \A i \in 1..Len(fetchLog) :
        fetchLog[i].status = "pending" => (i = Len(fetchLog) /\ gacPc = "awaitFetch")
  /\ \A i, j \in 1..Len(fetchLog) : i < j => fetchLog[i].page < fetchLog[j].page
  /\ Cardinality({i \in 1..Len(fetchLog) : fetchLog[i].status = "pending"}) <= 1

\* the third page is being fetched after one page failed and one resolved
C23_Witness ==
  /\ Len(fetchLog) = 3
  /\ fetchLog[1].status = "fail" /\ fetchLog[2].status = "ok"
  /\ fetchLog[3].status = "pending" /\ gacPc = "awaitFetch"

\* C21: in a browser no flush timer is installed, the buffer and the drains
\* stay empty and nothing is done on the file system, whatever the
\* configuration says.
C21_BrowserSinkDisabled ==
  ~isServer =>
     /\ flushTimeout = "none"
     /\ logBuffer = <<>> /\ flushJobs = <<>> /\ fileLog = <<>>
     /\ ~dirExists /\ files = {} /\ lastWrite = NoWrite

\* a browser logger whose configuration asks for file logging has logged an
\* ERROR entry to the console
C21_Witness ==
  /\ ~isServer /\ config.enableFileLogging
  /\ lastCall.level = ERROR
  /\ Len(console) > 0 /\ console[Len(console)] = ConsoleItem(lastCall)

\* the number of places an entry holds in the buffer, the drains in progress
\* and the file
Count(e, q) == Cardinality({i \in 1..Len(q) : q[i] = e})

Places(e, buf, jobs, file) ==
  Count(e, buf) + Count(e, file)
    + Cardinality({p \in (1..Len(jobs)) \X (1..MaxDrainCalls + 1) :
                     p[2] <= Len(jobs[p[1]]) /\ jobs[p[1]][p[2]] = e})

EntriesOf(buf, jobs, file) ==
  {buf[i] : i \in 1..Len(buf)} \cup {file[i] : i \in 1..Len(file)}
    \cup UNION {{jobs[j][i] : i \in 1..Len(jobs[j])} : j \in 1..Len(jobs)}

\* C22: an entry accepted into the buffer holds one place among the buffer,
\* the drains in progress and the file, from the call that accepted it on:
\* no step drops it or doubles it, and what was written stays written.
C22_ExactlyOnce ==
  [][LET accepted == /\ nextId' # nextId /\ lastCall'.level >= config.logLevel
                     /\ isServer /\ config.enableFileLogging
     IN /\ \A e \in EntriesOf(logBuffer, flushJobs, fileLog)
                    \cup EntriesOf(logBuffer', flushJobs', fileLog') :
              /\ Places(e, logBuffer', flushJobs', fileLog')
                   = Places(e, logBuffer, flushJobs, fileLog)
                       + (IF accepted /\ e = lastCall' THEN 1 ELSE 0)
              /\ Places(e, logBuffer', flushJobs', fileLog') = 1
        /\ accepted => Places(lastCall', logBuffer', flushJobs', fileLog') = 1
        /\ Len(fileLog') >= Len(fileLog)
        /\ SubSeq(fileLog', 1, Len(fileLog)) = fileLog]_vars

\* entries are in the buffer, in a drain in progress and in the file
C22_Witness ==
  /\ logBuffer # <<>> /\ flushJobs # <<>> /\ fileLog # <<>>
  /\ \E j \in 1..Len(flushJobs) :
        \E i \in 1..Len(flushJobs[j]) : flushJobs[j][i].id < logBuffer[1].id

\* C24: every entry accepted into the buffer is eventually in the file.
C24_EventuallyDrained ==
  \A id \in 1..MaxLogCalls :
     (\E k \in 1..Len(logBuffer) : logBuffer[k].id = id)
        ~> (\E k \in 1..Len(fileLog) : fileLog[k].id = id)

\* C28: the entries of the file are in the order of their acceptance.
C28_FileOrder ==
  \A i, j \in 1..Len(fileLog) : i < j => fileLog[i].id < fileLog[j].id

\* ---- the ApiLogger ----

\* the console items a step adds
Emitted == SubSeq(console', Len(console) + 1, Len(console'))

\* a step that is a call of logResponse or logError
CompleteOrFail == apiCalls' # apiCalls /\ apiLast'.op \in {"logResponse", "logError"}

\* the one entry that reports an unknown request id
UnknownIdEntry ==
  /\ Len(Emitted) = 1
  /\ Emitted[1].entry.message \in
       {<<"No request context found for response: ">> \o apiLast'.requestId,
        <<"API Error without request context">>}

\* C11: a call of logResponse or logError for an id with a live entry removes
\* the entry; a call for an id with no live entry, such as any later call for
\* the same id, is logged as an unknown id and leaves the tracker as it was.
C11_SingleUse ==
  [][CompleteOrFail =>
       IF MapHas(activeRequests, apiLast'.requestId)
         THEN ~MapHas(activeRequests', apiLast'.requestId)
         ELSE activeRequests' = activeRequests /\ UnknownIdEntry]_vars

\* C12: logResponse and logError called with an id that has no live entry do
\* not throw, log one entry at WARN and leave the tracker as it was.
C12_UnknownIdNeverThrows ==
  [][(CompleteOrFail /\ ~MapHas(activeRequests, apiLast'.requestId)) =>
       /\ ~apiLast'.threw
       /\ activeRequests' = activeRequests
       /\ UnknownIdEntry
       /\ Emitted[1].entry.level = WARN]_vars

\* a step that is a sweep, called directly or by the timer
Sweep == apiCalls' # apiCalls /\ apiLast'.op \in {"cleanupStaleRequests", "periodicCleanup"}

\* the positions of the entries begun more than five minutes before now
OlderThanFiveMinutes ==
  {i \in 1..Len(activeRequests) : now - activeRequests[i].timestamp > 5 * 60 * 1000}

\* the ids of the live entries
LiveIds(reqs) == {reqs[i].requestId : i \in 1..Len(reqs)}

\* C13: a sweep removes the entries begun more than five minutes ago and no
\* other, logs one WARN entry for each of them, in order, and returns their
\* number; the stats after the sweep count that many entries fewer, and none
\* of the removed ids is live.
C13_SweepRemovesStale ==
  [][Sweep =>
       LET old == OlderThanFiveMinutes
           kept == {i \in 1..Len(activeRequests) : i \notin old}
           before == getActiveRequestsStats(activeRequests, now)
           after == getActiveRequestsStats(activeRequests', now)
       IN /\ LiveIds(activeRequests') = {activeRequests[i].requestId : i \in kept}
          /\ \A i \in 1..Len(activeRequests') : InSeq(activeRequests'[i], activeRequests)
          /\ apiLast'.returned = Cardinality(old)
          /\ Cardinality({k \in 1..Len(Emitted) : Emitted[k].entry.level = WARN})
               = Cardinality(old)
          /\ \A i \in old :
               \E k \in 1..Len(Emitted) :
                 /\ Emitted[k].entry.level = WARN
                 /\ Field(Emitted[k].entry.data, KeyRequestId)
                      = Str(activeRequests[i].requestId)
          /\ before.total = Len(activeRequests)
          /\ after.total = before.total - Cardinality(old)
          /\ \A i \in old : activeRequests[i].requestId \notin LiveIds(activeRequests')
          /\ (IsSome(after.oldestRequest)
                => after.oldestRequest[1] \in {activeRequests[i].requestId : i \in kept})]_vars

\* a sweep has removed one entry and left another
C13_Witness ==
  /\ apiLast.op = "cleanupStaleRequests"
  /\ apiLast.returned = 1
  /\ Len(activeRequests) = 1

\* a step that is a call of logResponse for an id with a live entry
Completes == apiCalls' # apiCalls /\ apiLast'.op = "logResponse" /\ apiLast'.found

\* the time since the stored start time of the request of the call
Elapsed == now - MapGet(activeRequests, apiLast'.requestId).timestamp

\* logResponse emits the response entry at the level of the status, after
\* the slow-request entry when the duration d exceeds the threshold
ResponseEntries(d) ==
  LET n == Len(Emitted)
  IN /\ n = IF d > 3000 THEN 2 ELSE 1
     /\ Emitted[n].entry.message[1] = "API Response: "
     /\ Emitted[n].entry.level = IF apiLast'.status >= 400 THEN ERROR ELSE INFO
     /\ n = 2 => /\ Emitted[1].entry.level = WARN
                 /\ Emitted[1].entry.message[1] = "Slow API request detected: "

\* C14 as stated: the duration is the supplied one whenever one is given.
C14_DurationIfGiven ==
  [][Completes =>
       ResponseEntries(IF IsSome(apiLast'.duration)
                         THEN apiLast'.duration[1] ELSE Elapsed)]_vars

\* C14: logResponse for a live id emits one response entry, at ERROR if the
\* status is 400 or more and at INFO otherwise, and one WARN slow-request
\* entry before it exactly when the duration exceeds 3000 ms; the duration is
\* the supplied one if one is given and is not 0, and the time elapsed since
\* the stored start time otherwise.
C14_ResponseEntries ==
  [][Completes =>
       ResponseEntries(IF IsSome(apiLast'.duration) /\ apiLast'.duration[1] # 0
                         THEN apiLast'.duration[1] ELSE Elapsed)]_vars

\* a response of status 400 was logged for a live id with a supplied
\* duration of 0 after more than the threshold had elapsed
C14_Witness ==
  /\ apiLast.op = "logResponse" /\ apiLast.found
  /\ apiLast.status = 400
  /\ apiLast.duration = Some(0)
  /\ apiLast.returned > slowRequestThreshold
  /\ Len(console) >= 2
  /\ console[Len(console) - 1].entry.level = WARN
  /\ console[Len(console)].entry.level = ERROR

\* C25: no response entry handed to the logger holds the value of a
\* sensitive key of the response body.
C25_ResponseRedacted ==
  \A i \in 1..Len(console) :
     (console[i].text = "entry" /\ console[i].entry.message[1] = "API Response: ")
       => ~Contains(Stringify(console[i].entry.data), Secret)

\* a step that is a call of logRequest
Begins == apiCalls' # apiCalls /\ apiLast'.op = "logRequest"

\* C26: logRequest stores the context under the id it returns whether or
\* not requests are logged; the request entry it logs when they are holds no
\* value of a sensitive key of the headers, the body or the query.
C26_RequestStoredAndRedacted ==
  [][Begins =>
       /\ MapHas(activeRequests', apiLast'.requestId)
       /\ MapGet(activeRequests', apiLast'.requestId).timestamp = now
       /\ IF development
            THEN /\ Len(Emitted) = 1
                 /\ Emitted[1].entry.message[1] = "API Request: "
                 /\ ~Contains(Stringify(Emitted[1].entry.data), Secret)
            ELSE Emitted = <<>>]_vars

\* C18: a log call made through a child logger yields an entry whose source,
\* requestId and userId are the values pinned in the child; the entry is
\* dropped by the parent's level filter or reaches the parent's console and
\* durable sink; creating a child changes nothing in the logger (no buffer,
\* no timer).
C18_ChildPinsContext ==
  [][/\ (nextId' # nextId /\ IsSome(lastVia'.child))
          => /\ lastCall'.source = Some(lastVia'.child[1].source)
             /\ lastCall'.requestId = lastVia'.child[1].requestId
             /\ lastCall'.userId = lastVia'.child[1].userId
             /\ IF lastCall'.level < config.logLevel
                  THEN UNCHANGED <<console, logBuffer, flushJobs, fileLog>>
                  ELSE /\ console' = Append(console, ConsoleItem(lastCall'))
                       /\ InDurableSink(lastCall', logBuffer', flushJobs', fileLog')
     /\ children' # children => UNCHANGED <<logVars, sinkVars>>
    ]_vars

\* C19: the data of every entry on the console, and the text of every line
\* appended to the file, is what redaction leaves of it: no value under a
\* sensitive key is emitted.
C19_BaseLoggerRedacts ==
  /\ \A i \in 1..Len(console) :
        console[i].text = "entry"
          => console[i].entry.data = sanitizeData(console[i].entry.data)
  /\ \A i \in 1..Len(fileLog) :
        formatLogMessage(fileLog[i]) =
          formatLogMessage([fileLog[i] EXCEPT !.data = sanitizeData(@)])

\* C20: the log directory never goes from at most maxLogFiles log files to
\* more than maxLogFiles.
C20_DirectoryBounded ==
  [][Cardinality(files) <= config.maxLogFiles
       => Cardinality(files') <= config.maxLogFiles]_vars

RECURSIVE ValueAt(_, _)
\* the value found in x by following the entry positions of path
ValueAt(x, path) ==
  IF Len(path) = 0 THEN x ELSE ValueAt(x.e[Head(path)].val, Tail(path))

RECURSIVE ReplaceAt(_, _, _)
\* x with the value at path replaced by alt
ReplaceAt(x, path, alt) ==
  IF Len(path) = 0 THEN alt
  ELSE [x EXCEPT !.e[Head(path)].val = ReplaceAt(@, Tail(path), alt)]

\* the steps of sanPath that enter the value of a sensitive key: the
\* "sensitive" wrapper is the one that puts the payload at position 1
SensitiveSteps == {j \in 1..Len(sanPath) : sanPath[j] = 1}

\* values of several types that could stand under a key instead
AltValues ==
  {Str(<<"o", "t", "h", "e", "r">>), Num(<<"0">>), JNull,
   Obj(<<Entry(KeyData, Str(<<"o">>))>>), Arr(<<Bool(TRUE)>>)}

\* C9: for a structured payload, every key that matches a sensitive pattern
\* (in any letter case) and lies in an object at depth <= 5 is redacted: the
\* output holds the redaction marker in place of the value of that key (or of
\* a sensitive key above it), and the output is the same whatever value, of
\* whatever type, stands under the key, so the value occurs nowhere in it.
C9_SensitiveKeysRedacted ==
  (sanPc = "done" /\ Truthy(sanInput) /\ TypeofObject(sanInput)) =>
    \A j \in SensitiveSteps :
      j - 1 <= 5 =>
        /\ ValueAt(sanOutput, SubSeq(sanPath, 1, Min(SensitiveSteps))) = REDACTED
        /\ \A alt \in AltValues :
             sanitizeData(ReplaceAt(sanInput, SubSeq(sanPath, 1, j), alt)) = sanOutput

C9_Witness ==
  /\ sanPc = "done"
  /\ Len(sanPath) = 7 /\ SensitiveSteps = {6}
  /\ ValueAt(sanInput, SubSeq(sanPath, 1, 6)).t = "arr"
  /\ ValueAt(sanOutput, SubSeq(sanPath, 1, 6)) = REDACTED

RECURSIVE Height(_)
\* the number of nested objects and arrays in x: 0 for a primitive
Height(x) ==
  IF x.t \in {"obj", "arr"}
    THEN LET below == {0} \cup {Height(x.e[i].val) : i \in 1..Len(x.e)}
         IN 1 + (CHOOSE h \in below : \A g \in below : g <= h)
    ELSE 0

RECURSIVE Unfolding(_)
\* n levels of the unfolding of an object that holds itself under "data" and
\* a secret under a sensitive key: what a walk of n levels sees of the cycle
Unfolding(n) ==
  Obj(<<Entry(SensitiveKeys[1], Str(<<"p", "w">>)),
        Entry(KeyData, IF n = 0 THEN JNull ELSE Unfolding(n - 1))>>)

UnfoldDepth == 9

\* subtrees that could stand at a position: empty ones, and the unfolding
\* of a cyclic object to several depths
DeepValues == {Obj(<<>>), Arr(<<>>)} \cup {Unfolding(n) : n \in {0, 1, UnfoldDepth}}

\* the path to the value at depth 6 of the payload
PathBelowLimit == SubSeq(sanPath, 1, maxSanitizeDepth + 1)

\* C27: the walk descends at most 5 levels. An object or array at depth 6
\* is never walked: the output holds the depth marker in its place whatever
\* keys it has (or the redaction marker of the uppermost sensitive key on the
\* way to it), the output has no object or array below depth 5, and the
\* output is the same whatever subtree stands at depth 6, however deep, so
\* the walk ends on deep and on cyclic payloads and copies nothing of them.
C27_DepthBound ==
  (sanPc = "done" /\ Len(sanPath) > maxSanitizeDepth
     /\ ValueAt(sanInput, PathBelowLimit).t \in {"obj", "arr"}) =>
    LET upper == {j \in SensitiveSteps : j <= maxSanitizeDepth + 1}
    IN /\ IF upper = {}
            THEN ValueAt(sanOutput, PathBelowLimit) = TooDeep
            ELSE ValueAt(sanOutput, SubSeq(sanPath, 1, Min(upper))) = REDACTED
       /\ Height(sanOutput) <= maxSanitizeDepth + 1
       /\ \A alt \in DeepValues :
            sanitizeData(ReplaceAt(sanInput, PathBelowLimit, alt)) = sanOutput

C27_Witness ==
  /\ sanPc = "done"
  /\ Len(sanPath) = 7 /\ SensitiveSteps = {7}
  /\ ValueAt(sanInput, PathBelowLimit).t = "obj"
  /\ ValueAt(sanOutput, PathBelowLimit) = TooDeep
  /\ Height(sanOutput) = maxSanitizeDepth + 1

\* C10: truncateResponseBody returns a body whose serialized form (the body
\* itself for a string, its JSON text otherwise) is longer than maxLength as
\* the wrapper {_truncated: true, _originalLength: that length, _data: the
\* first maxLength characters of the serialized form followed by "..."}, and
\* returns every other body unchanged.
C10_Truncation ==
  trPc = "done" =>
    LET serialized == IF trBody.t = "str" THEN trBody.v
                      ELSE IF trBody.t = "undef" THEN <<>>
                      ELSE Stringify(trBody)
    IN IF Len(serialized) > trMax
         THEN /\ trResult.t = "obj" /\ Len(trResult.e) = 3
              /\ trResult.e[1] = Entry(KeyTruncated, Bool(TRUE))
              /\ trResult.e[2] = Entry(KeyOriginalLength, Num(NumToChars(Len(serialized))))
              /\ trResult.e[3].k = KeyTruncatedData
              /\ trResult.e[3].val.t = "str"
              /\ Len(trResult.e[3].val.v) = trMax + 3
              /\ SubSeq(trResult.e[3].val.v, 1, trMax) = SubSeq(serialized, 1, trMax)
              /\ SubSeq(trResult.e[3].val.v, trMax + 1, trMax + 3) = <<".", ".", ".">>
         ELSE trResult = trBody

C10_Witness ==
  /\ trPc = "done"
  /\ trBody.t = "obj" /\ Len(Stringify(trBody)) = trMax + 1
  /\ trResult.t = "obj" /\ trResult.e[1].k = KeyTruncated

\* the calls among cs that found the correlation entry live and handled it
FoundLive(cs) == {k \in 1..Len(cs) : cs[k].found /\ ~cs[k].threw}

\* the complete/fail calls among cs that were handled as an unknown id
AsUnknownId(cs) == {k \in 1..Len(cs) : ~cs[k].found /\ ~cs[k].threw}

\* C29: a withLogging call that ended has closed its correlation entry
\* exactly once: exactly one of the complete/fail calls it made found the
\* entry live, none of them was handled as an unknown id, none threw, and no
\* entry for its id is live afterwards.
C29_ClosedExactlyOnce ==
  IsSome(withLast) =>
    LET w == withLast[1]
    IN /\ Cardinality(FoundLive(w.calls)) = 1
       /\ AsUnknownId(w.calls) = {}
       /\ \A k \in 1..Len(w.calls) : ~w.calls[k].threw
       /\ ~MapHas(activeRequests, w.requestId)

\* C30: at most one getDramaList request is in flight, and the list on the
\* page never comes from a request older than one whose response was
\* already put there.
C30_OneRequestInFlight ==
  /\ Len(inFlight) <= 1
  /\ dramasFrom # 0 => \A id \in displayed : id <= dramasFrom

====
